---- MODULE Spec2Model ----
(***************************************************************************)
(* Position classification, resource selection and mistake learning of the *)
(* hybrid chess bot.                                                       *)
(*                                                                         *)
(* Units.  Evaluations are kept in centipawns (the integer the engine      *)
(* reports, deep_learning_chess_system.py:365 divides it by 100.0), so the *)
(* thresholds 2.0 / 1.0 / 0.5 / 0.1 of the code read 200 / 100 / 50 / 10.  *)
(* Feature values are kept in hundredths (0.8 reads 80).                   *)
(***************************************************************************)
EXTENDS Integers, Sequences, FiniteSets, TLC

VARIABLES
    \* the learning system (DeepLearningChessSystem)
    stockfish,          \* self.stockfish is not None (engine process started)
    positions_cache,    \* self.positions_cache: hash -> cached analysis
    mistakes_database,  \* self.mistakes_database: hash -> list of mistakes
    position_analyses,  \* durable table position_analyses, keyed by hash
    mistakes_table,     \* durable table mistakes, in insertion (id) order
    last,               \* what the last operation was given and returned
    \* two board objects that hold the same position
    features,           \* the features of the position (a function of the FEN)
    played_stack,       \* len(board.move_stack) of the board that was played out
    loaded_stack,       \* len(board.move_stack) of the board built from the FEN
    position_type,      \* the classifications of the last analysis
    \* the move selection (EngineWrapper, AdvancedHybridEngine)
    selector,           \* the object: its class and the collaborators it holds
    learning_data,      \* len(self.learning_data) of AdvancedHybridEngine
    request,            \* the board of the call and the answers it will get
    reply,              \* what the call of get_move returned
    queried,            \* the sources the call asked for a move, in order
    \* the weighted choice from the opening book (EngineWrapper._get_book_move)
    book_entries,       \* list(self.book.find_all(board))
    book_choice,        \* the random values of the call and the entry returned
    \* the analysis of a board and the engine call made with it
    position_analysis,  \* the board and the PositionAnalysis made of it
    engine_limit,       \* the chess.engine.Limit given to engine.play
    \* games of the learning system that reach positions by several move orders
    game_board,         \* the board of the game being played
    analysis_cache,     \* self.positions_cache: the hashes with their FEN
    lookup,             \* the last deep_position_analysis: its board and path
    \* the feature extraction of a board given by its pieces
    feature_board,      \* the board handed to _extract_features
    extracted,          \* the feature dictionary it returned
    \* the engine choice of hybrid_engine.py
    controller_engines, \* list(HybridEngineController.engines.keys())
    performance_history,\* EngineSelector.performance_history
    decision_history,   \* HybridEngineController.decision_history
    updates,            \* the number of calls of learn_from_result so far
    called,             \* what the last call was given and returned
    \* the confidence score of the two analyzers
    scored,             \* the features scored last, by whom, and the score
    \* the classification of hybrid_engine.py
    classified,         \* the board PositionAnalyzer analysed and its type
    \* the tournaments
    tournament,         \* the locals of play_tournament and what was played
    \* the position type of deep_position_analysis
    typed,              \* a board, and the types reported for it
    \* the engine manager of advanced_hybrid_engine.py
    manager             \* its engines, its performance history, its last call

ledgerVars == <<stockfish, positions_cache, mistakes_database,
                position_analyses, mistakes_table, last>>

classVars == <<features, played_stack, loaded_stack, position_type>>

selVars == <<selector, learning_data, request, reply, queried>>

bookVars == <<book_entries, book_choice>>

budgetVars == <<position_analysis, engine_limit>>

gameVars == <<game_board, analysis_cache, lookup>>

auxVars == <<bookVars, budgetVars, gameVars>>

featVars == <<feature_board, extracted>>

ctlVars == <<controller_engines, performance_history, decision_history,
             updates, called>>

extVars == <<featVars, ctlVars, scored, classified, tournament, typed,
            manager>>

baseVars == <<ledgerVars, classVars, selVars, auxVars>>

\* What the actions of each later part leave alone.
featFrame == <<baseVars, ctlVars, scored, classified, tournament, typed,
              manager>>

ctlFrame == <<baseVars, featVars, scored, classified, tournament, typed,
              manager>>

scoreFrame == <<baseVars, featVars, ctlVars, classified, tournament, typed,
              manager>>

typeFrame == <<baseVars, featVars, ctlVars, scored, tournament, typed,
              manager>>

tournamentFrame == <<baseVars, featVars, ctlVars, scored, classified, typed,
                     manager>>

typedFrame == <<stockfish, mistakes_database, mistakes_table, last, classVars,
                selVars, auxVars, featVars, ctlVars, scored, classified,
                tournament, manager>>

managerFrame == <<baseVars, featVars, ctlVars, scored, classified, tournament,
                  typed>>

vars == <<ledgerVars, classVars, selVars, auxVars, extVars>>

(***************************************************************************)
(* PART 1.  The mistake ledger of DeepLearningChessSystem                  *)
(* (TournamentLearningSystem carries a line-for-line copy).                *)
(***************************************************************************)

\* Position hashes (md5 of the FEN) of the positions the model plays with.
Hashes == {"h1", "h2"}

\* A move object is named by its UCI text; board.san / board.parse_san
\* convert between the move and its SAN text in the position.
LegalMoves == <<"d2d4", "e2e4", "g1f3">>

Moves == {LegalMoves[i] : i \in 1..Len(LegalMoves)}

NoMove == "None"

NoPv == "nopv"

NotAvailable == "N/A"

SanOf(move) ==
    CASE move = "e2e4" -> "e4"
      [] move = "d2d4" -> "d4"
      [] move = "g1f3" -> "Nf3"
      [] OTHER -> "?"

Sans == {SanOf(m) : m \in Moves}

\* board.parse_san: the move whose SAN is the text, NoMove when the text
\* is not the SAN of a legal move (python-chess raises; the callers catch).
ParseSan(san) ==
    IF \E m \in Moves : SanOf(m) = san
    THEN CHOOSE m \in Moves : SanOf(m) = san
    ELSE NoMove

\* The cap that keeps the ledger finite in the model.
MaxRecords == 2

\* The cap on the ledger in the severity specification.
MaxSeverityRecords == 1

\* Thresholds of record_mistake and of the game loop, in centipawns.
BlunderDiff == 200

MistakeDiff == 100

InaccuracyDiff == 50

MistakeMargin == 10

\* What the engine may answer for a position (multipv lines, best first):
\* each line is the first move of its pv (NoPv: an empty pv) and its score.
Line(pv, cp) == [pv |-> pv, cp |-> cp]

EngineAnswers ==
    { <<Line("e2e4", 30), Line("d2d4", 10), Line("g1f3", 0)>>,
      <<Line("d2d4", 30), Line("e2e4", 20)>>,
      <<Line(NoPv, 30), Line("d2d4", 0)>> }

\* The engine raised, or answered with no line at all (result[0] raises).
EngineFailed == <<>>

EngineOutcomes == EngineAnswers \cup {EngineFailed}

NoEntry == [cached |-> FALSE, evaluation |-> 0, best_moves |-> <<>>]

Entry(evaluation, best_moves) ==
    [cached |-> TRUE, evaluation |-> evaluation, best_moves |-> best_moves]

RECURSIVE BestMovesOf(_)
\* deep_position_analysis: (board.san(pv[0]) or "N/A", score) per line.
BestMovesOf(result) ==
    IF result = <<>> THEN <<>>
    ELSE <<[san |-> IF Head(result).pv = NoPv THEN NotAvailable
                    ELSE SanOf(Head(result).pv),
            score |-> Head(result).cp]>> \o BestMovesOf(Tail(result))

\* json.dumps(best_moves) / json.loads(text): a list of (san, score) pairs
\* is written as a list of two-element lists and read back as such.
JsonDumps(best_moves) ==
    [i \in 1..Len(best_moves) |-> <<best_moves[i].san, best_moves[i].score>>]

JsonLoads(text) ==
    [i \in 1..Len(text) |-> [san |-> text[i][1], score |-> text[i][2]]]

NoRow == [stored |-> FALSE, evaluation |-> 0, best_moves |-> <<>>]

\* _save_position_analysis: INSERT OR REPLACE of the row of the hash.
SavePositionAnalysis(saved, h, evaluation, best_moves) ==
    [saved EXCEPT ![h] = [stored |-> TRUE, evaluation |-> evaluation,
                          best_moves |-> JsonDumps(best_moves)]]

\* An analysis that also caches the fallback values of a failed query.
DeepPositionAnalysis_CachesFailure(cache, saved, h, result, saveOk) ==
    IF cache[h].cached
    THEN [best_moves |-> cache[h].best_moves,
          evaluation |-> cache[h].evaluation,
          position_type |-> "cached",
          cache |-> cache, saved |-> saved]
    ELSE [best_moves |-> <<>>, evaluation |-> 0,
          position_type |-> "unknown",
          cache |-> [cache EXCEPT ![h] = Entry(0, <<>>)], saved |-> saved]

\* deep_position_analysis on the position with hash h, from the given cache
\* and table: the best_moves of the returned analysis, and the cache and
\* table it leaves.  result is the engine's answer, saveOk whether the
\* table write succeeds (its exception is caught with the engine's).
DeepPositionAnalysis(cache, saved, h, result, saveOk) ==
    IF cache[h].cached
    THEN [best_moves |-> cache[h].best_moves,
          evaluation |-> cache[h].evaluation,
          position_type |-> "cached",
          cache |-> cache, saved |-> saved]
    ELSE IF stockfish /\ result # EngineFailed
    THEN LET best_moves == BestMovesOf(result)
             main_evaluation == result[1].cp
             cache2 == [cache EXCEPT ![h] = Entry(main_evaluation, best_moves)]
         IN  IF saveOk
             THEN [best_moves |-> best_moves,
                   evaluation |-> main_evaluation,
                   position_type |-> "analysed",
                   cache |-> cache2,
                   saved |-> SavePositionAnalysis(saved, h, main_evaluation,
                                                  best_moves)]
             ELSE [best_moves |-> <<>>, evaluation |-> 0,
                   position_type |-> "unknown",
                   cache |-> cache2, saved |-> saved]
    ELSE [best_moves |-> <<>>, evaluation |-> 0,
          position_type |-> "unknown",
          cache |-> cache, saved |-> saved]

\* A filter that reads the recommended move of each mistake.
BadMoves_BestMove(mistakes) == {mistakes[i].best_move : i \in 1..Len(mistakes)}

\* bad_moves of get_best_move_with_learning: the moves played of the
\* mistakes the index holds for the position.
BadMoves(mistakes) == {mistakes[i].move_played : i \in 1..Len(mistakes)}

RECURSIVE FilteredMoves(_, _)
\* The loop that keeps the best moves whose SAN is not in bad_moves.
FilteredMoves(best_moves, bad_moves) ==
    IF best_moves = <<>> THEN <<>>
    ELSE IF Head(best_moves).san \notin bad_moves
         THEN <<Head(best_moves)>> \o FilteredMoves(Tail(best_moves), bad_moves)
         ELSE FilteredMoves(Tail(best_moves), bad_moves)

\* A filter without the test that a move survived.
FilterCandidates_NoFallback(mistakes, best_moves) ==
    IF mistakes # <<>>
    THEN FilteredMoves(best_moves, BadMoves(mistakes))
    ELSE best_moves

\* The candidate list get_best_move_with_learning goes on with: the
\* filtered list when the position is in the index and a move survives.
FilterCandidates(mistakes, best_moves) ==
    IF mistakes # <<>> /\ FilteredMoves(best_moves, BadMoves(mistakes)) # <<>>
    THEN FilteredMoves(best_moves, BadMoves(mistakes))
    ELSE best_moves

\* A choice of the last candidate instead of the first.
SelectMove_Last(best_moves) ==
    IF best_moves # <<>> /\ ParseSan(best_moves[Len(best_moves)].san) # NoMove
    THEN ParseSan(best_moves[Len(best_moves)].san)
    ELSE IF LegalMoves # <<>> THEN LegalMoves[1] ELSE NoMove

\* The move chosen from the candidate list: its first entry when that
\* parses, else the first legal move, else None.
SelectMove(best_moves) ==
    IF best_moves # <<>> /\ ParseSan(best_moves[1].san) # NoMove
    THEN ParseSan(best_moves[1].san)
    ELSE IF LegalMoves # <<>> THEN LegalMoves[1] ELSE NoMove

\* A decision that selects from the ranked list instead of the filtered one.
GetBestMoveWithLearning_Unfiltered(cache, saved, index, h, result, saveOk) ==
    LET analysis == DeepPositionAnalysis(cache, saved, h, result, saveOk)
        filtered == FilterCandidates(index[h], analysis.best_moves)
    IN  [move |-> SelectMove(analysis.best_moves),
         ranked |-> analysis.best_moves,
         filtered |-> filtered,
         bad_moves |-> BadMoves(index[h]),
         cache |-> analysis.cache,
         saved |-> analysis.saved]

\* get_best_move_with_learning on the position with hash h.
GetBestMoveWithLearning(cache, saved, index, h, result, saveOk) ==
    LET analysis == DeepPositionAnalysis(cache, saved, h, result, saveOk)
        filtered == FilterCandidates(index[h], analysis.best_moves)
    IN  [move |-> SelectMove(filtered),
         ranked |-> analysis.best_moves,
         filtered |-> filtered,
         bad_moves |-> BadMoves(index[h]),
         cache |-> analysis.cache,
         saved |-> analysis.saved]

\* Severity classes with inclusive thresholds.
MistakeType_Inclusive(evaluation_diff) ==
    IF evaluation_diff >= BlunderDiff THEN "blunder"
    ELSE IF evaluation_diff >= MistakeDiff THEN "mistake"
    ELSE IF evaluation_diff >= InaccuracyDiff THEN "inaccuracy"
    ELSE "minor"

\* record_mistake: the severity class of an evaluation difference.
MistakeType(evaluation_diff) ==
    IF evaluation_diff > BlunderDiff THEN "blunder"
    ELSE IF evaluation_diff > MistakeDiff THEN "mistake"
    ELSE IF evaluation_diff > InaccuracyDiff THEN "inaccuracy"
    ELSE "minor"

\* record_mistake: the severity number stored with the class, in tenths.
Severity(mistake_type) ==
    CASE mistake_type = "blunder" -> 10
      [] mistake_type = "mistake" -> 7
      [] mistake_type = "inaccuracy" -> 4
      [] OTHER -> 2

\* record_mistake: the row inserted into the mistakes table.
MistakeRow(h, move_played, move_evaluation, best_move, best_evaluation) ==
    LET mistake_type == MistakeType(best_evaluation - move_evaluation)
    IN  [position_hash |-> h,
         move_played |-> SanOf(move_played),
         move_evaluation |-> move_evaluation,
         best_move |-> SanOf(best_move),
         best_evaluation |-> best_evaluation,
         mistake_type |-> mistake_type,
         severity |-> Severity(mistake_type)]

\* The entry of the in-memory index that goes with a row.
IndexEntry(row) ==
    [move_played |-> row.move_played, best_move |-> row.best_move,
     mistake_type |-> row.mistake_type, severity |-> row.severity]

\* A record_mistake that updates the index before the insert.
RecordMistakeResult_IndexFirst(table, index, h, move_played, move_evaluation, best_move, best_evaluation, insertOk) ==
    LET row == MistakeRow(h, move_played, move_evaluation, best_move,
                          best_evaluation)
    IN  [table |-> IF insertOk THEN Append(table, row) ELSE table,
         index |-> [index EXCEPT ![h] = Append(@, IndexEntry(row))],
         raised |-> ~insertOk]

\* record_mistake from the given table and index: the insert is committed
\* first and raises when the store fails (insertOk = FALSE), which leaves
\* the method before the index is touched.
RecordMistakeResult(table, index, h, move_played, move_evaluation, best_move, best_evaluation, insertOk) ==
    LET row == MistakeRow(h, move_played, move_evaluation, best_move,
                          best_evaluation)
    IN  IF insertOk
        THEN [table |-> Append(table, row),
              index |-> [index EXCEPT ![h] = Append(@, IndexEntry(row))],
              raised |-> FALSE]
        ELSE [table |-> table, index |-> index, raised |-> TRUE]

\* A load that keeps only the latest mistake of each position.
LoadMistakes_LatestOnly(table, index) ==
    [h \in Hashes |->
        IF \E i \in 1..Len(table) : table[i].position_hash = h
        THEN LET last_i == CHOOSE i \in 1..Len(table) :
                     /\ table[i].position_hash = h
                     /\ \A j \in (i + 1)..Len(table) : table[j].position_hash # h
             IN  <<[move_played |-> table[last_i].move_played,
                    best_move |-> table[last_i].best_move,
                    mistake_type |-> table[last_i].mistake_type,
                    severity |-> table[last_i].severity]>>
        ELSE index[h]]

RECURSIVE LoadMistakes(_, _)
\* _load_learning_data: the rows of the mistakes table, in table order,
\* appended to the list of their hash.
LoadMistakes(table, index) ==
    IF table = <<>> THEN index
    ELSE LoadMistakes(Tail(table),
            [index EXCEPT ![Head(table).position_hash] =
                Append(@, IndexEntry(Head(table)))])

\* _load_learning_data: the cache rebuilt from the position_analyses table.
LoadPositions(saved) ==
    [h \in Hashes |->
        IF saved[h].stored
        THEN Entry(saved[h].evaluation, JsonLoads(saved[h].best_moves))
        ELSE NoEntry]

Quiet(op) ==
    [op |-> op, h |-> "h1", ranked |-> <<>>, filtered |-> <<>>,
     bad_moves |-> {}, move |-> NoMove, loop_moves |-> <<>>,
     rec |-> "none"]

\* __init__ on an empty data directory.
LedgerInit ==
    /\ stockfish \in BOOLEAN
    /\ positions_cache = [h \in Hashes |-> NoEntry]
    /\ mistakes_database = [h \in Hashes |-> <<>>]
    /\ position_analyses = [h \in Hashes |-> NoRow]
    /\ mistakes_table = <<>>
    /\ last = Quiet("init")

\* A call of record_mistake.
RecordMistake(h, move_played, move_evaluation, best_move, best_evaluation, insertOk) ==
    \E r \in {RecordMistakeResult(mistakes_table, mistakes_database, h, move_played, move_evaluation, best_move, best_evaluation, insertOk)} :
        /\ mistakes_table' = r.table
        /\ mistakes_database' = r.index
        /\ last' = [Quiet("record") EXCEPT
                       !.h = h, !.move = move_played,
                       !.rec = IF r.raised THEN "raised" ELSE "recorded"]
        /\ UNCHANGED <<stockfish, positions_cache, position_analyses>>

\* A call of get_best_move_with_learning.
GetBestMove(h, result, saveOk) ==
    \E g \in {GetBestMoveWithLearning(positions_cache, position_analyses, mistakes_database, h, result, saveOk)} :
        /\ positions_cache' = g.cache
        /\ position_analyses' = g.saved
        /\ last' = [Quiet("get_best_move") EXCEPT
                       !.h = h, !.ranked = g.ranked,
                       !.filtered = g.filtered, !.bad_moves = g.bad_moves,
                       !.move = g.move]
        /\ UNCHANGED <<stockfish, mistakes_database, mistakes_table>>

\* The evaluation the game loop finds for the chosen move in its analysis:
\* the index of the first best move with the SAN of the move, 0 when none.
MoveEvaluationAt(best_moves, san_move) ==
    IF \E i \in 1..Len(best_moves) : best_moves[i].san = san_move
    THEN CHOOSE i \in 1..Len(best_moves) :
            /\ best_moves[i].san = san_move
            /\ \A j \in 1..(i - 1) : best_moves[j].san # san_move
    ELSE 0

\* The quality check of the game loop: the chosen move is in the analysis
\* of the loop and its evaluation is below the top one by more than the
\* margin.
IsMistake(best_moves, move) ==
    /\ move # NoMove
    /\ MoveEvaluationAt(best_moves, SanOf(move)) # 0
    /\ best_moves[MoveEvaluationAt(best_moves, SanOf(move))].score
          < best_moves[1].score - MistakeMargin

\* One turn of White in play_learning_game on the position with hash h:
\* the analysis, the move choice, and the quality check with its record.
PlayWhiteMove(h, result1, saveOk1, result2, saveOk2, insertOk) ==
    \E analysis \in {DeepPositionAnalysis(positions_cache, position_analyses, h, result1, saveOk1)} :
    \E g \in {GetBestMoveWithLearning(analysis.cache, analysis.saved, mistakes_database, h, result2, saveOk2)} :
    \E obs \in {[Quiet("play") EXCEPT
                   !.h = h, !.ranked = g.ranked, !.filtered = g.filtered,
                   !.bad_moves = g.bad_moves, !.move = g.move,
                   !.loop_moves = analysis.best_moves]} :
        /\ positions_cache' = g.cache
        /\ position_analyses' = g.saved
        /\ UNCHANGED stockfish
        /\ IF ~IsMistake(analysis.best_moves, g.move)
           THEN /\ last' = obs
                /\ UNCHANGED <<mistakes_database, mistakes_table>>
           ELSE IF ParseSan(analysis.best_moves[1].san) = NoMove
           THEN \* board.parse_san of the top entry raises in the call
                /\ last' = [obs EXCEPT !.rec = "raised"]
                /\ UNCHANGED <<mistakes_database, mistakes_table>>
           ELSE \E r \in {RecordMistakeResult(mistakes_table, mistakes_database, h, g.move,
                                analysis.best_moves[MoveEvaluationAt(analysis.best_moves, SanOf(g.move))].score,
                                ParseSan(analysis.best_moves[1].san),
                                analysis.best_moves[1].score, insertOk)} :
                /\ mistakes_table' = r.table
                /\ mistakes_database' = r.index
                /\ last' = [obs EXCEPT
                              !.rec = IF r.raised THEN "raised" ELSE "recorded"]

\* The process ends and a new one is constructed on the same database.
Restart ==
    /\ stockfish' \in BOOLEAN
    /\ positions_cache' = LoadPositions(position_analyses)
    /\ mistakes_database' = LoadMistakes(mistakes_table,
                                         [h \in Hashes |-> <<>>])
    /\ last' = Quiet("restart")
    /\ UNCHANGED <<position_analyses, mistakes_table>>

(***************************************************************************)
(* PART 2.  Position classification (AdvancedPositionAnalyzer).            *)
(* A position is followed on two board objects that always hold the same   *)
(* FEN: one that was played out move by move, one that may be built anew   *)
(* from the FEN of the first (chess.Board(fen): an empty move stack).      *)
(***************************************************************************)

\* The cap on the number of moves pushed on a board.
MaxPly == 10

\* Values each feature the classifier reads takes in the model, in
\* hundredths: below, at and above the thresholds the rules compare with.
FeatureVectors ==
    [piece_count: {70, 80},
     pawn_structure: {50, 60, 70},
     center_control: {30, 40, 50},
     position_complexity: {50, 60, 70},
     tactical_opportunities: {40, 50, 70},
     material_balance: {40, 50},
     space_control: {40, 50}]

QuietFeatures ==
    [piece_count |-> 70, pawn_structure |-> 50, center_control |-> 40,
     position_complexity |-> 50, tactical_opportunities |-> 40,
     material_balance |-> 40, space_control |-> 40]

NoTypes == [played |-> "none", loaded |-> "none"]

\* A classifier that tests the critical rule before the endgame rule.
ClassifyPosition_CriticalFirst(move_count, f) ==
    IF move_count <= 8 THEN "opening"
    ELSE IF f.tactical_opportunities >= 70 \/ f.material_balance >= 50
    THEN "critical"
    ELSE IF f.piece_count >= 80 THEN "endgame"
    ELSE IF /\ f.pawn_structure >= 70
            /\ f.center_control <= 30
            /\ f.position_complexity >= 60
    THEN "closed"
    ELSE IF f.tactical_opportunities >= 50 THEN "tactical"
    ELSE IF f.pawn_structure >= 60 /\ f.space_control >= 50 THEN "strategic"
    ELSE IF f.position_complexity >= 70 THEN "complex"
    ELSE IF f.center_control >= 50 THEN "open"
    ELSE "simple"

\* _classify_position: move_count is len(board.move_stack).
ClassifyPosition(move_count, f) ==
    IF move_count <= 8 THEN "opening"
    ELSE IF f.piece_count >= 80 THEN "endgame"
    ELSE IF /\ f.pawn_structure >= 70
            /\ f.center_control <= 30
            /\ f.position_complexity >= 60
    THEN "closed"
    ELSE IF f.tactical_opportunities >= 70 \/ f.material_balance >= 50
    THEN "critical"
    ELSE IF f.tactical_opportunities >= 50 THEN "tactical"
    ELSE IF f.pawn_structure >= 60 /\ f.space_control >= 50 THEN "strategic"
    ELSE IF f.position_complexity >= 70 THEN "complex"
    ELSE IF f.center_control >= 50 THEN "open"
    ELSE "simple"

\* _recommend_engine: the engine the analysis names for a position type.
RecommendEngine(type) ==
    IF type \in {"strategic", "closed"} THEN "lc0" ELSE "stockfish"

\* Two boards are constructed from the FEN of a position.
ClassifyInit ==
    /\ features \in FeatureVectors
    /\ played_stack = 0
    /\ loaded_stack = 0
    /\ position_type = NoTypes

\* No board is under analysis.
ClassifyIdle ==
    /\ features = QuietFeatures
    /\ played_stack = 0
    /\ loaded_stack = 0
    /\ position_type = NoTypes

\* board.push(move) on both boards, with a move that leaves the features
\* the classifier reads as they are.
PushMove ==
    /\ played_stack < MaxPly
    /\ played_stack' = played_stack + 1
    /\ loaded_stack' = loaded_stack + 1
    /\ position_type' = NoTypes
    /\ UNCHANGED <<features, ledgerVars, selVars, auxVars, extVars>>

\* The second board is built anew: chess.Board(board.fen()).
LoadFromFen ==
    /\ loaded_stack' = 0
    /\ position_type' = NoTypes
    /\ UNCHANGED <<features, played_stack, ledgerVars, selVars, auxVars, extVars>>

\* analyze_position on each of the two boards.
AnalyzePosition ==
    /\ position_type' = [played |-> ClassifyPosition(played_stack, features),
                         loaded |-> ClassifyPosition(loaded_stack, features)]
    /\ UNCHANGED <<features, played_stack, loaded_stack, ledgerVars, selVars, auxVars, extVars>>

(***************************************************************************)
(* PART 3.  Move selection: EngineWrapper.get_move and                     *)
(* AdvancedHybridEngine.get_move (tablebase, then book, then engine).      *)
(***************************************************************************)

\* The cap on the learning records AdvancedHybridEngine collects.
MaxLearning == 2

\* Piece count up to which the tablebase is probed.
ProbeLimit == 6

\* Number of moves played up to which the book is consulted.
MaxBookMoves == 15

\* config.GAME_CONFIG["book_probability"], in hundredths.
BookProbability == 80

EngineNames == {"stockfish", "lc0"}

\* The objects the model constructs: the class, and which collaborators
\* the constructor could open (self.tablebase, self.book / self.book_reader,
\* self.engine / engine_manager.engines).
Selectors ==
    {s \in [class: {"EngineWrapper", "AdvancedHybridEngine"},
            tablebase: BOOLEAN, book: BOOLEAN, engines: SUBSET EngineNames] :
        s.class = "EngineWrapper" => s.engines \subseteq {"stockfish"}}

NoSelector ==
    [class |-> "none", tablebase |-> FALSE, book |-> FALSE, engines |-> {}]

\* The legal moves of the board of a call, in the order of board.legal_moves.
TbLegalMoves == <<"move1", "move2">>

BookMove == "book_move"

EngineMove == "engine_move"

\* A tablebase probe: its value, or the exception it raises.
Probe(v) == [ok |-> TRUE, v |-> v]

ProbeFails == [ok |-> FALSE, v |-> 0]

WdlAnswers == {ProbeFails, Probe(-2), Probe(0), Probe(2)}

ChildAnswers == {ProbeFails, Probe(-3), Probe(-1)}

NoChildren == [i \in 1..Len(TbLegalMoves) |-> ProbeFails]

\* What the tablebase answers for a position: probe_wdl, whether probe_dtz
\* of the position succeeds, and probe_dtz of the position after each
\* legal move.  Probes that are never made are held at ProbeFails.
TbAnswers ==
    {t \in [wdl: WdlAnswers, dtz_ok: BOOLEAN,
            child: [1..Len(TbLegalMoves) -> ChildAnswers]] :
        /\ ~t.wdl.ok => ~t.dtz_ok
        /\ ~t.dtz_ok => t.child = NoChildren}

NoTb == [wdl |-> ProbeFails, dtz_ok |-> FALSE, child |-> NoChildren]

\* The feature vectors of the boards of the calls.
SelectFeatures ==
    {QuietFeatures,
     [QuietFeatures EXCEPT !.material_balance = 50],
     [QuietFeatures EXCEPT !.pawn_structure = 60, !.space_control = 50]}

\* The boards of the calls: len(board.piece_map()), len(board.move_stack),
\* board.is_game_over() and the features of the position.
Boards ==
    [piece_count: {3, 6, 7}, move_count: {0, 14, 15, 16},
     game_over: BOOLEAN, features: SelectFeatures]

NoBoard ==
    [piece_count |-> 32, move_count |-> 0, game_over |-> FALSE,
     features |-> QuietFeatures]

\* random.random() of _should_use_book, in hundredths.
Draws == {79, 80}

NoRequest ==
    [pending |-> FALSE, board |-> NoBoard, tb |-> NoTb, draw |-> 0,
     book_move |-> NoMove, engine_move |-> NoMove]

\* What get_move comes to: the source of the move, the move (NoMove for
\* None) and the engine the decision names.
Outcome(source, move, engine) ==
    [source |-> source, move |-> move, engine |-> engine]

NoOutcome == Outcome("none", NoMove, "none")

NoReply == [done |-> FALSE, outcome |-> NoOutcome]

Abs(x) == IF x < 0 THEN 0 - x ELSE x

RECURSIVE WrapperTablebaseLoop(_, _, _, _)
\* EngineWrapper._get_tablebase_move, the loop over the legal moves from
\* the i-th on: a move whose probe raises is skipped; best_move = NoMove
\* stands for best_dtz = float('inf').
WrapperTablebaseLoop(child, i, best_move, best_dtz) ==
    IF i > Len(TbLegalMoves) THEN best_move
    ELSE IF /\ child[i].ok
            /\ (best_move = NoMove \/ Abs(child[i].v) < Abs(best_dtz))
         THEN WrapperTablebaseLoop(child, i + 1, TbLegalMoves[i], child[i].v)
         ELSE WrapperTablebaseLoop(child, i + 1, best_move, best_dtz)

\* EngineWrapper._should_use_tablebase.
WrapperShouldUseTablebase(sel, board) ==
    sel.tablebase /\ board.piece_count <= ProbeLimit

\* EngineWrapper._get_tablebase_move.
WrapperGetTablebaseMove(tb) ==
    IF ~tb.wdl.ok \/ ~tb.dtz_ok THEN NoMove
    ELSE WrapperTablebaseLoop(tb.child, 1, NoMove, 0)

\* A book test that does not look at the book handle.
WrapperShouldUseBook_NoHandle(sel, board, draw) ==
    board.move_count < MaxBookMoves /\ draw < BookProbability

\* EngineWrapper._should_use_book.
WrapperShouldUseBook(sel, board, draw) ==
    sel.book /\ board.move_count < MaxBookMoves /\ draw < BookProbability

\* EngineWrapper.get_move.
WrapperGetMove(sel, req) ==
    IF req.board.game_over THEN NoOutcome
    ELSE IF /\ WrapperShouldUseTablebase(sel, req.board)
            /\ WrapperGetTablebaseMove(req.tb) # NoMove
    THEN Outcome("tablebase", WrapperGetTablebaseMove(req.tb), "none")
    ELSE IF /\ WrapperShouldUseBook(sel, req.board, req.draw)
            /\ req.book_move # NoMove
    THEN Outcome("book", req.book_move, "none")
    ELSE IF sel.engines # {} /\ req.engine_move # NoMove
    THEN Outcome("engine", req.engine_move, "stockfish")
    ELSE NoOutcome

RECURSIVE HybridTablebaseLoop(_, _, _, _)
\* AdvancedHybridEngine._get_tablebase_move, the loop over the legal moves.
HybridTablebaseLoop(child, i, best_move, best_dtz) ==
    IF i > Len(TbLegalMoves) THEN best_move
    ELSE IF /\ child[i].ok
            /\ (best_move = NoMove \/ child[i].v < best_dtz)
         THEN HybridTablebaseLoop(child, i + 1, TbLegalMoves[i], child[i].v)
         ELSE HybridTablebaseLoop(child, i + 1, best_move, best_dtz)

\* A cutoff one piece too low.
HybridShouldUseTablebase_Below(sel, board) ==
    sel.tablebase /\ board.piece_count < ProbeLimit

\* AdvancedHybridEngine._should_use_tablebase.
HybridShouldUseTablebase(sel, board) ==
    sel.tablebase /\ board.piece_count <= ProbeLimit

\* AdvancedHybridEngine._get_tablebase_move.
HybridGetTablebaseMove(tb) ==
    IF ~tb.wdl.ok \/ ~tb.dtz_ok THEN NoMove
    ELSE IF tb.wdl.v > 0 THEN HybridTablebaseLoop(tb.child, 1, NoMove, 0)
    ELSE NoMove

\* AdvancedHybridEngine._should_use_book.
HybridShouldUseBook(sel, board) ==
    sel.book /\ board.move_count <= MaxBookMoves

\* AdvancedEngineManager.get_best_move: the recommended engine plays, and
\* the info names it.  When it is not running Stockfish plays instead, but
\* _update_performance then looks up the history of the recommended engine,
\* which only a started engine has: the KeyError is caught with the errors
\* of play and the call returns no move.  No move either when neither
\* engine runs or play gives none.
ManagerGetBestMove(sel, req) ==
    LET recommended ==
            RecommendEngine(ClassifyPosition(req.board.move_count,
                                             req.board.features))
    IN  IF recommended \in sel.engines /\ req.engine_move # NoMove
        THEN Outcome("engine", req.engine_move, recommended)
        ELSE NoOutcome

\* AdvancedHybridEngine.get_move.
HybridGetMove(sel, req) ==
    IF /\ HybridShouldUseTablebase(sel, req.board)
       /\ HybridGetTablebaseMove(req.tb) # NoMove
    THEN Outcome("tablebase", HybridGetTablebaseMove(req.tb), "none")
    ELSE IF HybridShouldUseBook(sel, req.board) /\ req.book_move # NoMove
    THEN Outcome("book", req.book_move, "none")
    ELSE ManagerGetBestMove(sel, req)

\* The collaborators a call of EngineWrapper.get_move asks, in order.
WrapperQueried(sel, req) ==
    IF req.board.game_over THEN <<>>
    ELSE (IF WrapperShouldUseTablebase(sel, req.board)
          THEN <<"tablebase">> ELSE <<>>)
         \o
         (IF /\ WrapperShouldUseTablebase(sel, req.board)
             /\ WrapperGetTablebaseMove(req.tb) # NoMove
          THEN <<>>
          ELSE (IF WrapperShouldUseBook(sel, req.board, req.draw)
                THEN <<"book">> ELSE <<>>)
               \o
               (IF /\ WrapperShouldUseBook(sel, req.board, req.draw)
                   /\ req.book_move # NoMove
                THEN <<>>
                ELSE IF sel.engines # {} THEN <<"engine">> ELSE <<>>))

\* The collaborators a call of AdvancedHybridEngine.get_move asks, in order.
HybridQueried(sel, req) ==
    (IF HybridShouldUseTablebase(sel, req.board)
     THEN <<"tablebase">> ELSE <<>>)
    \o
    (IF /\ HybridShouldUseTablebase(sel, req.board)
        /\ HybridGetTablebaseMove(req.tb) # NoMove
     THEN <<>>
     ELSE (IF HybridShouldUseBook(sel, req.board) THEN <<"book">> ELSE <<>>)
          \o
          (IF HybridShouldUseBook(sel, req.board) /\ req.book_move # NoMove
           THEN <<>>
           ELSE IF \/ RecommendEngine(ClassifyPosition(req.board.move_count, req.board.features)) \in sel.engines
                   \/ "stockfish" \in sel.engines
                THEN <<"engine">> ELSE <<>>))

\* Whether the tablebase gives the move of a call.  A board whose game is
\* over gets the answers its collaborators would give, though
\* EngineWrapper.get_move asks none of them.
TablebaseDecides(sel, board, tb) ==
    IF sel.class = "EngineWrapper"
    THEN /\ WrapperShouldUseTablebase(sel, board)
         /\ WrapperGetTablebaseMove(tb) # NoMove
    ELSE /\ HybridShouldUseTablebase(sel, board)
         /\ HybridGetTablebaseMove(tb) # NoMove

BookAsked(sel, board, tb, draw) ==
    /\ ~TablebaseDecides(sel, board, tb)
    /\ IF sel.class = "EngineWrapper"
       THEN WrapperShouldUseBook(sel, board, draw)
       ELSE HybridShouldUseBook(sel, board)

DrawAsked(sel, board, tb) ==
    /\ sel.class = "EngineWrapper"
    /\ ~TablebaseDecides(sel, board, tb)
    /\ sel.book /\ board.move_count < MaxBookMoves

EngineAsked(sel, board, tb, draw, book_move) ==
    /\ ~TablebaseDecides(sel, board, tb)
    /\ ~(BookAsked(sel, board, tb, draw) /\ book_move # NoMove)
    /\ IF sel.class = "EngineWrapper"
       THEN sel.engines # {}
       ELSE \/ RecommendEngine(ClassifyPosition(board.move_count, board.features)) \in sel.engines
            \/ "stockfish" \in sel.engines

\* __init__ of one of the two classes.
SelectInit ==
    /\ selector \in Selectors
    /\ learning_data = 0
    /\ request = NoRequest
    /\ reply = NoReply
    /\ queried = <<>>

\* No selector is constructed.
SelectIdle ==
    /\ selector = NoSelector
    /\ learning_data = 0
    /\ request = NoRequest
    /\ reply = NoReply
    /\ queried = <<>>

\* A caller is about to call get_move on a board; the answers the
\* collaborators will give for that board are fixed with it.  An answer
\* that the call never asks for is held at its default.
Call ==
    /\ ~request.pending
    /\ \E board \in Boards :
       \E tb \in (IF selector.tablebase /\ board.piece_count <= ProbeLimit THEN TbAnswers ELSE {NoTb}) :
       \E draw \in (IF DrawAsked(selector, board, tb) THEN Draws ELSE {0}) :
       \E book_move \in (IF BookAsked(selector, board, tb, draw) THEN {NoMove, BookMove} ELSE {NoMove}) :
       \E engine_move \in (IF EngineAsked(selector, board, tb, draw, book_move) THEN {NoMove, EngineMove} ELSE {NoMove}) :
          /\ selector.class = "AdvancedHybridEngine" => ~board.game_over
          /\ request' = [pending |-> TRUE, board |-> board, tb |-> tb,
                         draw |-> draw, book_move |-> book_move,
                         engine_move |-> engine_move]
    /\ reply' = NoReply
    /\ queried' = <<>>
    /\ UNCHANGED <<selector, learning_data, ledgerVars, classVars, auxVars, extVars>>

\* EngineWrapper.get_move on the board of the call.
EngineWrapperGetMove ==
    /\ selector.class = "EngineWrapper"
    /\ request.pending /\ ~reply.done
    /\ reply' = [done |-> TRUE, outcome |-> WrapperGetMove(selector, request)]
    /\ queried' = WrapperQueried(selector, request)
    /\ UNCHANGED <<selector, learning_data, request, ledgerVars, classVars, auxVars, extVars>>

\* AdvancedHybridEngine.get_move on the board of the call; the engine path
\* ends with _save_learning_data, whatever the engine returned.
AdvancedHybridEngineGetMove ==
    /\ selector.class = "AdvancedHybridEngine"
    /\ request.pending /\ ~reply.done
    /\ \E r \in {HybridGetMove(selector, request)} :
          /\ reply' = [done |-> TRUE, outcome |-> r]
          /\ queried' = HybridQueried(selector, request)
          /\ IF r.source \in {"tablebase", "book"}
             THEN UNCHANGED learning_data
             ELSE /\ learning_data < MaxLearning
                  /\ learning_data' = learning_data + 1
    /\ UNCHANGED <<selector, request, ledgerVars, classVars, auxVars, extVars>>

\* The caller has its answer; the call is over.
Return ==
    /\ request.pending /\ reply.done
    /\ request' = NoRequest
    /\ reply' = NoReply
    /\ queried' = <<>>
    /\ UNCHANGED <<selector, learning_data, ledgerVars, classVars, auxVars, extVars>>

(***************************************************************************)
(* PART 4.  The weighted choice from the opening book                      *)
(* (EngineWrapper._get_book_move).                                         *)
(***************************************************************************)

\* The cap on the number of book entries of a position.
MaxEntries == 3

\* The weights a book entry takes in the model.
Weights == {0, 1, 2}

\* The entries the book holds for a position: the i-th entry is for the
\* i-th move and has a weight.
EntryLists ==
    UNION {[1..n -> Weights] : n \in 0..MaxEntries}

RECURSIVE TotalWeight(_)
\* sum(entry.weight for entry in entries)
TotalWeight(entries) ==
    IF entries = <<>> THEN 0
    ELSE Head(entries) + TotalWeight(Tail(entries))

RECURSIVE CumulativeScan(_, _, _, _)
\* The scan of the entries from the i-th on: the first entry at which the
\* running sum reaches r; entries[0] when the scan ends without one.
CumulativeScan(entries, r, i, cumulative_weight) ==
    IF i > Len(entries) THEN 1
    ELSE IF r <= cumulative_weight + entries[i] THEN i
    ELSE CumulativeScan(entries, r, i + 1, cumulative_weight + entries[i])

\* _get_book_move: the index of the entry whose move is returned, 0 for
\* None.  r is the value of random.uniform(0, total_weight) and pick the
\* index random.choice takes.
GetBookMove(entries, r, pick) ==
    IF entries = <<>> THEN 0
    ELSE IF TotalWeight(entries) = 0 THEN pick
    ELSE CumulativeScan(entries, r, 1, 0)

NoChoice == [called |-> FALSE, r |-> 0, pick |-> 1, index |-> 0]

\* No book is being read.
BookIdle ==
    /\ book_entries = <<>>
    /\ book_choice = NoChoice

\* A book position with its entries.
BookInit ==
    /\ book_entries \in EntryLists
    /\ book_choice = NoChoice

\* _get_book_move on the position.  A random value the call does not draw
\* is held fixed.
BookGetMove ==
    /\ \E r \in 0..TotalWeight(book_entries) :
       \E pick \in (IF book_entries # <<>> /\ TotalWeight(book_entries) = 0 THEN 1..Len(book_entries) ELSE {1}) :
          book_choice' = [called |-> TRUE, r |-> r, pick |-> pick,
                          index |-> GetBookMove(book_entries, r, pick)]
    /\ UNCHANGED <<book_entries, ledgerVars, classVars, selVars, budgetVars, gameVars, extVars>>

\* The game goes on to another book position.
BookNextPosition ==
    /\ book_choice.called
    /\ book_entries' \in EntryLists
    /\ book_choice' = NoChoice
    /\ UNCHANGED <<ledgerVars, classVars, selVars, budgetVars, gameVars, extVars>>

(***************************************************************************)
(* PART 5.  The analysis of a board and the engine budget made from it     *)
(* (AdvancedPositionAnalyzer.analyze_position, AdvancedEngineManager).     *)
(* Times are kept in hundredths of a second.                               *)
(***************************************************************************)

\* base_time of _calculate_time_allocation, in hundredths of a second.
BaseTime == 200

\* base_depth of _calculate_depth_allocation.
BaseDepth == 20

\* The boards analysed: len(board.move_stack), len(board.piece_map()),
\* len(list(board.legal_moves)) and the two features that make a position
\* critical; the starting position is the board (0, 32, 20).
BudgetBoards ==
    [move_count: {0, 9}, pieces: {6, 16, 32}, legal_moves: {20, 40, 62},
     tactical_opportunities: {40, 70}, material_balance: {40, 50}]

Min(a, b) == IF a < b THEN a ELSE b

\* _analyze_piece_count: 1.0 - piece_count / 32.0, in hundredths.
AnalyzePieceCount(pieces) == (3200 - 100 * pieces) \div 32

\* _analyze_complexity: min(1.0, (legal_moves / 50.0 + pieces / 32.0) / 2.0),
\* in hundredths.
AnalyzeComplexity(legal_moves, pieces) ==
    Min(100, (32 * legal_moves + 50 * pieces) \div 32)

\* _extract_features on a board of the model.
ExtractFeatures(b) ==
    [QuietFeatures EXCEPT
        !.piece_count = AnalyzePieceCount(b.pieces),
        !.position_complexity = AnalyzeComplexity(b.legal_moves, b.pieces),
        !.tactical_opportunities = b.tactical_opportunities,
        !.material_balance = b.material_balance]

\* A time allocation whose factors add up instead of composing.
TimeAllocation_Additive(type, f) ==
    BaseTime
    + (IF f.position_complexity >= 70 THEN BaseTime \div 2 ELSE 0)
    + (IF type = "critical" THEN BaseTime ELSE 0)
    - (IF type = "endgame" THEN (BaseTime * 3) \div 10 ELSE 0)

\* _calculate_time_allocation.
TimeAllocation(type, f) ==
    LET t1 == IF f.position_complexity >= 70
              THEN (BaseTime * 15) \div 10 ELSE BaseTime
        t2 == IF type = "critical" THEN t1 * 2 ELSE t1
    IN  IF type = "endgame" THEN (t2 * 7) \div 10 ELSE t2

\* _calculate_depth_allocation.
DepthAllocation(type, f) ==
    BaseDepth
    + (IF f.position_complexity >= 70 THEN 10 ELSE 0)
    + (IF type = "critical" THEN 15 ELSE 0)
    + (IF type = "endgame" THEN 5 ELSE 0)

\* analyze_position on a board of the model.
AnalyzeBoard(b) ==
    LET f == ExtractFeatures(b)
        type == ClassifyPosition(b.move_count, f)
    IN  [made |-> TRUE, board |-> b, features |-> f,
         position_type |-> type,
         recommended_engine |-> RecommendEngine(type),
         time_allocation |-> TimeAllocation(type, f),
         depth_allocation |-> DepthAllocation(type, f)]

NoAnalysis ==
    [made |-> FALSE,
     board |-> [move_count |-> 0, pieces |-> 32, legal_moves |-> 20,
                tactical_opportunities |-> 40, material_balance |-> 40],
     features |-> QuietFeatures, position_type |-> "none",
     recommended_engine |-> "none", time_allocation |-> 0,
     depth_allocation |-> 0]

NoLimit == [set |-> FALSE, time |-> 0, depth |-> 0]

\* Nothing is analysed yet.
BudgetInit ==
    /\ position_analysis = NoAnalysis
    /\ engine_limit = NoLimit

\* The analyzer is given a board (step 3 of get_move).
AnalyzerAnalyzePosition ==
    /\ \E b \in BudgetBoards : position_analysis' = AnalyzeBoard(b)
    /\ engine_limit' = NoLimit
    /\ UNCHANGED <<ledgerVars, classVars, selVars, bookVars, gameVars, extVars>>

\* AdvancedEngineManager.get_best_move: the limit it gives engine.play
\* (step 4 of get_move).
ManagerPlay ==
    /\ position_analysis.made
    /\ engine_limit' = [set |-> TRUE,
                        time |-> position_analysis.time_allocation,
                        depth |-> position_analysis.depth_allocation]
    /\ UNCHANGED <<position_analysis, ledgerVars, classVars, selVars, bookVars, gameVars, extVars>>

(***************************************************************************)
(* PART 6.  Positions reached by several move orders and the analysis      *)
(* cache (DeepLearningChessSystem._get_position_hash); the engine is       *)
(* started and answers.                                                    *)
(***************************************************************************)

\* The moves of the games: White develops the knight and pushes the queen's
\* pawn in either order, Black answers with the knight.
WhiteMoves == {"Nf3", "d4"}

BlackMoves == {"Nf6"}

PawnMoves == {"d4"}

\* chess.Board(): the starting position.  The moves commute, so the piece
\* placement is told by the set of moves made.
StartBoard ==
    [placement |-> {}, turn |-> "w", halfmove_clock |-> 0,
     fullmove_number |-> 1]

\* board.push(move).
Push(b, move) ==
    [placement |-> b.placement \cup {move},
     turn |-> IF b.turn = "w" THEN "b" ELSE "w",
     halfmove_clock |-> IF move \in PawnMoves THEN 0 ELSE b.halfmove_clock + 1,
     fullmove_number |-> IF b.turn = "b" THEN b.fullmove_number + 1
                         ELSE b.fullmove_number]

\* board.fen(): placement, side to move, castling rights, en-passant
\* square (no capture en passant is legal in these games), halfmove clock
\* and fullmove number.
Fen(b) ==
    [placement |-> b.placement, turn |-> b.turn, castling |-> "KQkq",
     ep |-> "-", halfmove_clock |-> b.halfmove_clock,
     fullmove_number |-> b.fullmove_number]

\* _get_position_hash: md5 of the FEN text, which tells two texts apart.
GetPositionHash(b) == Fen(b)

NoLookup == [made |-> FALSE, path |-> "none"]

\* A new system on an empty cache, at the start of a game.
GameInit ==
    /\ game_board = StartBoard
    /\ analysis_cache = {}
    /\ lookup = NoLookup

\* A move of the game is pushed on the board.
GamePush ==
    /\ \E move \in (IF game_board.turn = "w" THEN WhiteMoves ELSE BlackMoves) \ game_board.placement :
          game_board' = Push(game_board, move)
    /\ lookup' = NoLookup
    /\ UNCHANGED <<analysis_cache, ledgerVars, classVars, selVars, bookVars, budgetVars, extVars>>

\* deep_position_analysis on the board: answered from the cache when the
\* hash is a key of it, else by the engine, whose answer is cached.
GameAnalysis ==
    /\ lookup' = [made |-> TRUE,
                  path |-> IF \E e \in analysis_cache :
                                 e.position_hash = GetPositionHash(game_board)
                           THEN "cache" ELSE "engine"]
    /\ analysis_cache' =
          analysis_cache \cup {[position_hash |-> GetPositionHash(game_board),
                                fen |-> Fen(game_board)]}
    /\ UNCHANGED <<game_board, ledgerVars, classVars, selVars, bookVars, budgetVars, extVars>>

\* play_learning_game starts another game; the cache is kept.
NewGame ==
    /\ game_board' = StartBoard
    /\ lookup' = NoLookup
    /\ UNCHANGED <<analysis_cache, ledgerVars, classVars, selVars, bookVars, budgetVars, extVars>>

(***************************************************************************)
(* PART 7.  The feature extraction on a board given by its pieces          *)
(* (AdvancedPositionAnalyzer._extract_features and its ten analyses).      *)
(* Files and ranks count from 0 as chess.square_file / chess.square_rank   *)
(* do; feature values are in hundredths.                                   *)
(***************************************************************************)

Pc(type, color, file, rank) ==
    [type |-> type, color |-> color, file |-> file, rank |-> rank]

\* Pawn formations: none, the starting pawns, a centre with an isolated
\* a-pawn, and three white pawns on one file.
PawnSkeletons ==
    { {},
      {Pc("P", "w", f, 1) : f \in 0..7} \cup {Pc("P", "b", f, 6) : f \in 0..7},
      {Pc("P", "w", 3, 3), Pc("P", "w", 4, 3), Pc("P", "w", 0, 1),
       Pc("P", "b", 3, 4), Pc("P", "b", 4, 4)},
      {Pc("P", "w", 4, 1), Pc("P", "w", 4, 2), Pc("P", "w", 4, 3),
       Pc("P", "b", 7, 6)} }

WhiteOfficers ==
    {Pc("R", "w", 0, 0), Pc("N", "w", 1, 0), Pc("B", "w", 2, 0),
     Pc("Q", "w", 3, 0), Pc("B", "w", 5, 0), Pc("N", "w", 6, 0),
     Pc("R", "w", 7, 0)}

BlackOfficers ==
    {Pc("R", "b", 0, 7), Pc("N", "b", 1, 7), Pc("B", "b", 2, 7),
     Pc("Q", "b", 3, 7), Pc("B", "b", 5, 7), Pc("N", "b", 6, 7),
     Pc("R", "b", 7, 7)}

\* The officers: none, those of the starting position, White's with a
\* second queen from a promotion against a bare king, and a lone rook.
OfficerSets ==
    { {},
      WhiteOfficers \cup BlackOfficers,
      WhiteOfficers \cup {Pc("Q", "w", 2, 7)},
      {Pc("R", "w", 3, 3)} }

\* The kings at home, and both castled short.
KingPairs ==
    { {Pc("K", "w", 4, 0), Pc("K", "b", 4, 7)},
      {Pc("K", "w", 6, 0), Pc("K", "b", 6, 7)} }

SquaresOf(pieces) == {<<q.file, q.rank>> : q \in pieces}

\* A set of pieces is a position when no two of them share a square.
IsPlacement(pieces) == Cardinality(SquaresOf(pieces)) = Cardinality(pieces)

\* The boards handed to the extraction: the pieces, board.is_check(),
\* len(list(board.legal_moves)) and len(board.move_stack).
FeatureBoards ==
    { b \in [pieces : {P \cup O \cup K : P \in PawnSkeletons, O \in OfficerSets, K \in KingPairs},
             check : BOOLEAN, legal_moves : {0, 20, 62}, move_count : {0, 9, 25}] :
        IsPlacement(b.pieces) }

RECURSIVE SumOver(_, _)
\* The Python accumulation 'for x in xs: total += f[x]'.
SumOver(f, S) ==
    IF S = {} THEN 0
    ELSE LET x == CHOOSE y \in S : TRUE
         IN  f[x] + SumOver(f, S \ {x})

PawnsOf(pieces) == {q \in pieces : q.type = "P"}

\* _is_isolated_pawn: no pawn of the colour on a neighbouring file.
IsIsolatedPawn(pieces, square) ==
    ~\E q \in PawnsOf(pieces) :
        /\ q.color = square.color
        /\ q.file \in {square.file - 1, square.file + 1}

\* _analyze_pawn_structure: 0.1 per pawn in the centre block, 0.2 per
\* isolated pawn, at most 1.0.
AnalyzePawnStructure(pieces) ==
    Min(100, SumOver([q \in PawnsOf(pieces) |->
                        (IF q.file \in 2..5 /\ q.rank \in 2..5 THEN 10 ELSE 0)
                        + (IF IsIsolatedPawn(pieces, q) THEN 20 ELSE 0)],
                     PawnsOf(pieces)))

\* _analyze_center_control: 0.25 per occupied square of e4, e5, d4, d5.
AnalyzeCenterControl(pieces) ==
    25 * Cardinality(SquaresOf(pieces) \cap ({3, 4} \X {3, 4}))

\* _analyze_development: min(1.0, move_count / 20.0).
AnalyzeDevelopment(move_count) == Min(100, 5 * move_count)

\* _analyze_king_safety: 0.5 per king on the files c to f ('if white_king:'
\* also skips a king on a1, square 0).
AnalyzeKingSafety(pieces) ==
    50 * Cardinality({q \in pieces :
                        /\ q.type = "K"
                        /\ <<q.file, q.rank>> # <<0, 0>>
                        /\ q.file \in 2..5})

\* _analyze_tactical_opportunities: 0.3 for a check, 0.1 per knight, 0.05
\* per rook, bishop and queen, at most 1.0.
AnalyzeTacticalOpportunities(b) ==
    Min(100, (IF b.check THEN 30 ELSE 0)
             + 10 * Cardinality({q \in b.pieces : q.type = "N"})
             + 5 * Cardinality({q \in b.pieces : q.type \in {"R", "B", "Q"}}))

\* piece_values of _analyze_material_balance.
PieceValue(type) ==
    CASE type = "P" -> 1
      [] type \in {"N", "B"} -> 3
      [] type = "R" -> 5
      [] type = "Q" -> 9
      [] OTHER -> 0

Material(pieces, color) ==
    SumOver([q \in pieces |-> PieceValue(q.type)],
            {q \in pieces : q.color = color})

\* _analyze_material_balance: abs(white - black) / 39.0.
AnalyzeMaterialBalance(pieces) ==
    (100 * Abs(Material(pieces, "w") - Material(pieces, "b"))) \div 39

\* _analyze_space_control: 1/16 per occupied square of the block c3-f6.
AnalyzeSpaceControl(pieces) ==
    (100 * Cardinality(SquaresOf(pieces) \cap ((2..5) \X (2..5)))) \div 16

RECURSIVE PawnRun(_, _, _, _)
\* The loop of _get_pawn_chain_length: pawns of the colour on the file, on
\* consecutive ranks from r upwards.
PawnRun(pieces, color, file, r) ==
    IF r <= 7 /\ Pc("P", color, file, r) \in pieces
    THEN 1 + PawnRun(pieces, color, file, r + 1)
    ELSE 0

\* _get_pawn_chain_length.
GetPawnChainLength(pieces, square) ==
    1 + PawnRun(pieces, square.color, square.file, square.rank + 1)

\* _analyze_pawn_chains: chain_length / 8.0 per pawn, at most 1.0.
AnalyzePawnChains(pieces) ==
    Min(100, (100 * SumOver([q \in PawnsOf(pieces) |->
                               GetPawnChainLength(pieces, q)],
                            PawnsOf(pieces))) \div 8)

\* The keys of the dictionary _extract_features returns.
FeatureKeys ==
    {"piece_count", "pawn_structure", "center_control", "development",
     "king_safety", "tactical_opportunities", "position_complexity",
     "material_balance", "space_control", "pawn_chain_structure"}

\* _extract_features on a board given by its pieces.
ExtractBoardFeatures(b) ==
    [piece_count |-> AnalyzePieceCount(Cardinality(b.pieces)),
     pawn_structure |-> AnalyzePawnStructure(b.pieces),
     center_control |-> AnalyzeCenterControl(b.pieces),
     development |-> AnalyzeDevelopment(b.move_count),
     king_safety |-> AnalyzeKingSafety(b.pieces),
     tactical_opportunities |-> AnalyzeTacticalOpportunities(b),
     position_complexity |-> AnalyzeComplexity(b.legal_moves, Cardinality(b.pieces)),
     material_balance |-> AnalyzeMaterialBalance(b.pieces),
     space_control |-> AnalyzeSpaceControl(b.pieces),
     pawn_chain_structure |-> AnalyzePawnChains(b.pieces)]

NoFeatureBoard ==
    [pieces |-> {}, check |-> FALSE, legal_moves |-> 0, move_count |-> 0]

NoFeatures == [made |-> FALSE, features |-> [k \in FeatureKeys |-> 0]]

\* No board was handed to the extraction yet.
FeatureIdle ==
    /\ feature_board = NoFeatureBoard
    /\ extracted = NoFeatures

\* A position comes up.
FeatureSetBoard ==
    /\ \E b \in FeatureBoards : feature_board' = b
    /\ extracted' = NoFeatures
    /\ UNCHANGED featFrame

\* A call of _extract_features on the position.
FeatureExtract ==
    /\ feature_board # NoFeatureBoard
    /\ extracted' = [made |-> TRUE,
                     features |-> ExtractBoardFeatures(feature_board)]
    /\ UNCHANGED <<feature_board, featFrame>>

(***************************************************************************)
(* PART 8.  The engine choice of hybrid_engine.py (PositionAnalyzer,       *)
(* EngineSelector, HybridEngineController, AdaptiveHybridEngine).          *)
(* Performance scores are kept in thousandths, confidences in hundredths.  *)
(***************************************************************************)

\* The cap on the length of decision_history in the model.
MaxDecisions == 2

\* The cap on the number of calls of learn_from_result in the model.
MaxUpdates == 1

\* The default of performance_history.get(key, 0.5), in thousandths.
DefaultScore == 500

\* PositionType of hybrid_engine.py.
ControllerTypes ==
    {"opening", "tactical", "strategic", "endgame", "complex", "simple"}

\* EngineSelector.engine_preferences.
EnginePreferences(type) ==
    CASE type = "opening" -> <<"stockfish", "lc0">>
      [] type \in {"strategic", "complex"} -> <<"lc0", "stockfish">>
      [] OTHER -> <<"stockfish">>

\* list(self.engines.keys()): the engines that started, in the order
\* _initialize_engines tries them.
EngineLists == {<<>>, <<"stockfish">>, <<"lc0">>, <<"stockfish", "lc0">>}

Range(s) == {s[i] : i \in 1..Len(s)}

\* The values the confidence of a position_info takes in the model.
Confidences == {40, 100}

\* The position_info of the calls of the model: a type with two preferred
\* engines and a type with one.
PositionInfos == [type : {"strategic", "tactical"}, confidence : Confidences]

\* An empty performance_history: no key has a score.
NoPerformance == [k \in EngineNames \X ControllerTypes |-> -1]

\* performance_history.get(key, 0.5).
ScoreOf(perf, engine, type) ==
    IF perf[<<engine, type>>] = -1 THEN DefaultScore ELSE perf[<<engine, type>>]

RECURSIVE PerformanceLoop(_, _, _, _, _, _)
\* The loop of _select_based_on_performance from the i-th engine on.
PerformanceLoop(engines, type, perf, i, best_engine, best_score) ==
    IF i > Len(engines) THEN best_engine
    ELSE IF ScoreOf(perf, engines[i], type) > best_score
    THEN PerformanceLoop(engines, type, perf, i + 1, engines[i],
                         ScoreOf(perf, engines[i], type))
    ELSE PerformanceLoop(engines, type, perf, i + 1, best_engine, best_score)

\* EngineSelector._select_based_on_performance.
SelectBasedOnPerformance(engines, type, perf) ==
    PerformanceLoop(engines, type, perf, 1, engines[1], 0)

\* A selection that trusts the preference list only at high confidence.
SelectEngine_ConfidenceGated(position_info, available_engines, perf) ==
    LET Preferred(e) == e \in Range(available_engines)
        available_preferred ==
            SelectSeq(EnginePreferences(position_info.type), Preferred)
    IN  IF available_preferred = <<>> \/ position_info.confidence < 50
        THEN IF available_engines # <<>> THEN available_engines[1]
             ELSE "stockfish"
        ELSE IF Len(available_preferred) > 1
        THEN SelectBasedOnPerformance(available_preferred, position_info.type, perf)
        ELSE available_preferred[1]

\* EngineSelector.select_engine; position_info carries the confidence.
SelectEngine(position_info, available_engines, perf) ==
    LET Preferred(e) == e \in Range(available_engines)
        available_preferred ==
            SelectSeq(EnginePreferences(position_info.type), Preferred)
    IN  IF available_preferred = <<>>
        THEN IF available_engines # <<>> THEN available_engines[1]
             ELSE "stockfish"
        ELSE IF Len(available_preferred) > 1
        THEN SelectBasedOnPerformance(available_preferred, position_info.type, perf)
        ELSE available_preferred[1]

\* EngineSelector.update_performance, in thousandths.
UpdatePerformance(perf, engine, type, success) ==
    LET current_score == ScoreOf(perf, engine, type)
        new_score == IF success
                     THEN current_score + (1000 - current_score) \div 10
                     ELSE current_score - current_score \div 10
    IN  [perf EXCEPT ![<<engine, type>>] =
            IF new_score < 0 THEN 0 ELSE Min(1000, new_score)]

\* The record HybridEngineController.get_best_move appends.
Decision(position_info, selected_engine, move) ==
    [position_type |-> position_info.type,
     selected_engine |-> selected_engine,
     move |-> move,
     confidence |-> position_info.confidence]

\* HybridEngineController.get_best_move: the engine chosen, the move
\* returned and the decision history left.  engine_move is what the chosen
\* engine's get_move returns (NoMove for None).
ControllerGetBestMove(engines, perf, history, position_info, engine_move) ==
    LET selected_engine == SelectEngine(position_info, engines, perf)
    IN  IF selected_engine \in Range(engines)
        THEN [selected_engine |-> selected_engine, move |-> engine_move,
              history |-> Append(history,
                                 Decision(position_info, selected_engine,
                                          engine_move))]
        ELSE [selected_engine |-> selected_engine, move |-> NoMove,
              history |-> history]

\* What the last call of the controller was given and returned.
NoCall ==
    [op |-> "none", position_info |-> [type |-> "simple", confidence |-> 0],
     engine_move |-> NoMove, history |-> <<>>, selected_engine |-> "none",
     move |-> NoMove]

\* No controller is constructed.
ControllerIdle ==
    /\ controller_engines = <<>>
    /\ performance_history = NoPerformance
    /\ decision_history = <<>>
    /\ updates = 0
    /\ called = NoCall

\* HybridEngineController.__init__ and AdaptiveHybridEngine.__init__.
ControllerInit ==
    /\ controller_engines \in EngineLists
    /\ performance_history = NoPerformance
    /\ decision_history = <<>>
    /\ updates = 0
    /\ called = NoCall

\* A call of HybridEngineController.get_best_move, also the path of
\* AdaptiveHybridEngine.get_move when it does not explore.
HybridEngineControllerGetBestMove ==
    /\ Len(decision_history) < MaxDecisions
    /\ \E position_info \in PositionInfos :
       \E engine_move \in (IF SelectEngine(position_info, controller_engines, performance_history) \in Range(controller_engines) THEN {NoMove, EngineMove} ELSE {NoMove}) :
       \E r \in {ControllerGetBestMove(controller_engines, performance_history, decision_history, position_info, engine_move)} :
          /\ decision_history' = r.history
          /\ called' = [op |-> "get_best_move", position_info |-> position_info,
                        engine_move |-> engine_move,
                        history |-> decision_history,
                        selected_engine |-> r.selected_engine,
                        move |-> r.move]
    /\ UNCHANGED <<controller_engines, performance_history, updates, ctlFrame>>

\* AdaptiveHybridEngine.get_move when np.random.random() is below the
\* exploration rate and two engines run: a random engine is asked, and
\* nothing is appended to the decision history.
AdaptiveExplore ==
    /\ Len(controller_engines) >= 2
    /\ \E random_engine \in Range(controller_engines) :
       \E engine_move \in {NoMove, EngineMove} :
          called' = [NoCall EXCEPT !.op = "explore",
                                  !.engine_move = engine_move,
                                  !.selected_engine = random_engine,
                                  !.move = engine_move]
    /\ UNCHANGED <<controller_engines, performance_history, decision_history, updates, ctlFrame>>

\* AdaptiveHybridEngine.learn_from_result.
LearnFromResult ==
    /\ updates < MaxUpdates
    /\ \E selected_engine \in EngineNames, success \in BOOLEAN, type \in {"strategic"} :
          performance_history' =
              UpdatePerformance(performance_history, selected_engine, type, success)
    /\ updates' = updates + 1
    /\ called' = [NoCall EXCEPT !.op = "learn"]
    /\ UNCHANGED <<controller_engines, decision_history, ctlFrame>>

(***************************************************************************)
(* PART 9.  The confidence score (_calculate_confidence of                 *)
(* AdvancedPositionAnalyzer and of PositionAnalyzer).  Weights and feature *)
(* values are in hundredths, the score in ten-thousandths.                 *)
(***************************************************************************)

\* The features the two weight tables name.
WeightedKeys ==
    {"piece_count", "pawn_structure", "center_control", "development",
     "king_safety", "tactical_opportunities"}

\* The feature values scored in the model.
ScoredFeatures == [WeightedKeys -> {0, 100}]

\* AdvancedPositionAnalyzer.feature_weights.
AdvancedWeights ==
    [k \in WeightedKeys |->
        CASE k = "piece_count" -> 15
          [] k = "pawn_structure" -> 20
          [] k = "center_control" -> 15
          [] k = "development" -> 10
          [] k = "king_safety" -> 15
          [] OTHER -> 25]

\* PositionAnalyzer.feature_weights of hybrid_engine.py.
ControllerWeights ==
    [k \in WeightedKeys |->
        CASE k = "piece_count" -> 15
          [] k = "pawn_structure" -> 20
          [] k = "king_safety" -> 15
          [] k = "center_control" -> 15
          [] k = "development" -> 15
          [] OTHER -> 20]

\* The loop both _calculate_confidence run, and min(1.0, confidence).
WeightedScore(weights, f) ==
    Min(10000, SumOver([k \in WeightedKeys |-> f[k] * weights[k]], WeightedKeys))

\* AdvancedPositionAnalyzer._calculate_confidence.
AdvancedConfidence(f) == WeightedScore(AdvancedWeights, f)

\* PositionAnalyzer._calculate_confidence.
ControllerConfidence(f) == WeightedScore(ControllerWeights, f)

NoScore ==
    [by |-> "none", features |-> [k \in WeightedKeys |-> 0], confidence |-> 0]

\* Nothing was scored yet.
ScoreIdle == scored = NoScore

\* AdvancedPositionAnalyzer.analyze_position scores its features.
AdvancedScore ==
    /\ \E f \in ScoredFeatures :
          scored' = [by |-> "AdvancedPositionAnalyzer", features |-> f,
                     confidence |-> AdvancedConfidence(f)]
    /\ UNCHANGED scoreFrame

\* PositionAnalyzer.analyze_position scores its features.
ControllerScore ==
    /\ \E f \in ScoredFeatures :
          scored' = [by |-> "PositionAnalyzer", features |-> f,
                     confidence |-> ControllerConfidence(f)]
    /\ UNCHANGED scoreFrame

(***************************************************************************)
(* PART 10.  The classification of hybrid_engine.py                        *)
(* (PositionAnalyzer.analyze_position and _classify_position).             *)
(***************************************************************************)

\* The boards PositionAnalyzer is given: len(board.move_stack) (0 for a
\* board set up from a FEN string), len(board.piece_map()), and the
\* features that do not follow from these two.
ControllerBoards ==
    [move_count : {0, 10, 11, 40}, total_pieces : {2, 6, 7, 12, 13, 32},
     pawn_structure : {0, 60, 70}, center_control : {30, 50},
     tactical_opportunities : {20, 30, 50}]

\* PositionAnalyzer._analyze_piece_count.
ControllerPieceCount(total_pieces) ==
    IF total_pieces <= 6 THEN 100
    ELSE IF total_pieces <= 12 THEN 70
    ELSE IF total_pieces <= 20 THEN 40
    ELSE 10

\* PositionAnalyzer._analyze_development.
ControllerDevelopment(move_count) ==
    IF move_count <= 10 THEN 10
    ELSE IF move_count <= 20 THEN 30
    ELSE IF move_count <= 30 THEN 60
    ELSE 90

\* The features dictionary of PositionAnalyzer.analyze_position, as far as
\* the classification reads it.
ControllerFeatures(b) ==
    [piece_count |-> ControllerPieceCount(b.total_pieces),
     pawn_structure |-> b.pawn_structure,
     center_control |-> b.center_control,
     development |-> ControllerDevelopment(b.move_count),
     tactical_opportunities |-> b.tactical_opportunities]

\* PositionAnalyzer._is_closed_position.
IsClosedPosition(f) ==
    f.pawn_structure >= 70 /\ f.center_control <= 30 /\ f.development <= 40

\* PositionAnalyzer._classify_position.
ControllerClassifyPosition(move_count, f) ==
    IF move_count <= 10 THEN "opening"
    ELSE IF f.piece_count >= 80 THEN "endgame"
    ELSE IF IsClosedPosition(f) THEN "strategic"
    ELSE IF f.tactical_opportunities >= 50 THEN "tactical"
    ELSE IF f.pawn_structure >= 60 /\ f.center_control >= 50 THEN "strategic"
    ELSE IF f.tactical_opportunities >= 30 THEN "complex"
    ELSE "simple"

NoClassified ==
    [made |-> FALSE,
     board |-> [move_count |-> 0, total_pieces |-> 32, pawn_structure |-> 0,
                center_control |-> 30, tactical_opportunities |-> 20],
     features |-> [piece_count |-> 10, pawn_structure |-> 0,
                   center_control |-> 30, development |-> 10,
                   tactical_opportunities |-> 20],
     type |-> "none"]

\* Nothing was analysed yet.
TypeIdle == classified = NoClassified

\* PositionAnalyzer.analyze_position on a board.
ControllerAnalyzePosition ==
    /\ \E b \in ControllerBoards :
          classified' = [made |-> TRUE, board |-> b,
                         features |-> ControllerFeatures(b),
                         type |-> ControllerClassifyPosition(b.move_count,
                                                             ControllerFeatures(b))]
    /\ UNCHANGED typeFrame

\* The caller drops the analysis.
ControllerForget ==
    /\ classified.made
    /\ classified' = NoClassified
    /\ UNCHANGED typeFrame

(***************************************************************************)
(* PART 11.  The tournaments (play_tournament of TournamentLearningSystem  *)
(* and of ContinuousTournamentSystem).  One step per game of the loop; the *)
(* signal handler of the continuous system may run between two games.      *)
(***************************************************************************)

\* self.games_per_tournament of both systems.
GamesPerTournament == 5

\* board.result() at the end of a game ("*": no result on the board).
GameResults == {"1-0", "0-1", "1/2-1/2", "*"}

\* len(game_result['moves']) of a game.
GameLengths == {1, 2}

TournamentSystems == {"learning", "continuous"}

NoGame == [result |-> "none", moves |-> 0]

NoTournamentResult ==
    [games_played |-> 0, wins |-> 0, draws |-> 0, losses |-> 0,
     total_moves |-> 0]

\* The locals of play_tournament (game_num, the tallies, game_result), the
\* running flag, the result returned, and what was played: the number of
\* games play_single_game returned and the sum of their move counts.
NoTournament ==
    [system |-> "none", phase |-> "idle", running |-> TRUE, game_num |-> 1,
     wins |-> 0, draws |-> 0, losses |-> 0, total_moves |-> 0,
     game_result |-> NoGame, games |-> 0, moves |-> 0,
     returned |-> NoTournamentResult]

\* Nothing was played yet.
TournamentIdle == tournament = NoTournament

\* The tally of one game ("Sonuclari say" and total_moves += ...).
Tally(t, game_result) ==
    [t EXCEPT !.wins = IF game_result.result = "1-0" THEN @ + 1 ELSE @,
              !.losses = IF game_result.result = "0-1" THEN @ + 1 ELSE @,
              !.draws = IF game_result.result \notin {"1-0", "0-1"}
                        THEN @ + 1 ELSE @,
              !.total_moves = @ + game_result.moves]

\* The TournamentResult built after the loop.
TournamentResultOf(t) ==
    [games_played |-> GamesPerTournament, wins |-> t.wins,
     draws |-> t.draws, losses |-> t.losses, total_moves |-> t.total_moves]

\* What play_single_game leaves behind whoever called it.
Played(t, game_result) ==
    [t EXCEPT !.game_result = game_result, !.game_num = @ + 1,
              !.games = @ + 1, !.moves = @ + game_result.moves]

\* play_tournament is entered: the tallies are zeroed.
PlayTournament ==
    /\ tournament.phase \in {"idle", "done"}
    /\ \E system \in TournamentSystems :
          tournament' = [NoTournament EXCEPT
                            !.system = system, !.phase = "playing",
                            !.running = tournament.running]
    /\ UNCHANGED tournamentFrame

\* One pass of the loop of TournamentLearningSystem.play_tournament: the
\* body of the for statement is the call of play_single_game alone.
LearningPlayGame ==
    /\ tournament.system = "learning" /\ tournament.phase = "playing"
    /\ tournament.game_num <= GamesPerTournament
    /\ \E game_result \in [result : GameResults, moves : GameLengths] :
          tournament' = Played(tournament, game_result)
    /\ UNCHANGED tournamentFrame

\* After the loop of TournamentLearningSystem.play_tournament: the tally
\* of game_result, as the loop left it, and the result.
LearningFinish ==
    /\ tournament.system = "learning" /\ tournament.phase = "playing"
    /\ tournament.game_num > GamesPerTournament
    /\ \E t \in {Tally(tournament, tournament.game_result)} :
          tournament' = [t EXCEPT !.phase = "done",
                                  !.returned = TournamentResultOf(t)]
    /\ UNCHANGED tournamentFrame

\* One pass of the loop of ContinuousTournamentSystem.play_tournament:
\* the game and its tally.
ContinuousPlayGame ==
    /\ tournament.system = "continuous" /\ tournament.phase = "playing"
    /\ tournament.game_num <= GamesPerTournament
    /\ tournament.running
    /\ \E game_result \in [result : GameResults, moves : GameLengths] :
          tournament' = Tally(Played(tournament, game_result), game_result)
    /\ UNCHANGED tournamentFrame

\* ContinuousTournamentSystem._signal_handler.
SignalHandler ==
    /\ tournament.system = "continuous" /\ tournament.phase = "playing"
    /\ tournament.running
    /\ tournament' = [tournament EXCEPT !.running = FALSE]
    /\ UNCHANGED tournamentFrame

\* The loop of ContinuousTournamentSystem.play_tournament is left, at its
\* end or by the break, and the result is built.
ContinuousFinish ==
    /\ tournament.system = "continuous" /\ tournament.phase = "playing"
    /\ tournament.game_num > GamesPerTournament \/ ~tournament.running
    /\ tournament' = [tournament EXCEPT
                         !.phase = "done",
                         !.returned = TournamentResultOf(tournament)]
    /\ UNCHANGED tournamentFrame

(***************************************************************************)
(* PART 12.  The position type deep_position_analysis reports              *)
(* (DeepLearningChessSystem._classify_position_type and its two callers).  *)
(***************************************************************************)

\* The boards analysed: len(board.move_stack), len(board.piece_map()), and
\* the values of _calculate_tactical_opportunities and
\* _calculate_strategic_complexity on the board, in hundredths.
TypedBoards ==
    [move_count : {5, 20}, piece_count : {10, 32},
     tactical : {0, 50, 70}, strategic : {0, 50, 70}]

\* The hash of the board followed.
TypedHash == "h1"

\* _classify_position_type.
ClassifyPositionType(b, tactical, strategic) ==
    IF b.move_count <= 10 THEN "opening"
    ELSE IF b.piece_count <= 12 THEN "endgame"
    ELSE IF tactical >= 70 THEN "tactical"
    ELSE IF strategic >= 70 THEN "strategic"
    ELSE IF tactical >= 50 THEN "tactical_strategic"
    ELSE IF strategic >= 50 THEN "strategic_maneuvering"
    ELSE "quiet"

\* The position_type of the PositionAnalysis deep_position_analysis
\* returns on board b: from the cache, _classify_position_type(board, 0, 0);
\* from the engine, the type of the two values of the board; "unknown" in
\* the analysis returned after a failure.
ReportedType(b, analysis) ==
    IF analysis.position_type = "cached" THEN ClassifyPositionType(b, 0, 0)
    ELSE IF analysis.position_type = "analysed"
    THEN ClassifyPositionType(b, b.tactical, b.strategic)
    ELSE "unknown"

NoTyped ==
    [chosen |-> FALSE,
     board |-> [move_count |-> 5, piece_count |-> 32, tactical |-> 0,
                strategic |-> 0],
     made |-> FALSE, hit |-> FALSE, reported |-> "none", first |-> "none"]

\* No board is followed yet.
TypedIdle == typed = NoTyped

\* The board with the hash followed is set up.
TypedSetBoard ==
    /\ ~typed.chosen
    /\ \E b \in TypedBoards : typed' = [NoTyped EXCEPT !.chosen = TRUE, !.board = b]
    /\ UNCHANGED <<positions_cache, position_analyses, typedFrame>>

\* deep_position_analysis on the board followed; first keeps the type
\* reported by the call that analysed the position with the engine.
TypedDeepPositionAnalysis(result, saveOk) ==
    \E analysis \in {DeepPositionAnalysis(positions_cache, position_analyses, TypedHash, result, saveOk)} :
        /\ positions_cache' = analysis.cache
        /\ position_analyses' = analysis.saved
        /\ typed' = [typed EXCEPT
                        !.made = TRUE,
                        !.hit = (analysis.position_type = "cached"),
                        !.reported = ReportedType(typed.board, analysis),
                        !.first = IF analysis.position_type = "analysed"
                                  THEN ReportedType(typed.board, analysis)
                                  ELSE @]
        /\ UNCHANGED typedFrame

(***************************************************************************)
(* PART 13.  AdvancedEngineManager: who plays, who is named, whose         *)
(* performance history is updated.  An engine is named by the name of its  *)
(* configuration; there is one configuration per engine type.              *)
(***************************************************************************)

\* The cap on the number of updates of the performance history.
MaxManagerUpdates == 3

\* result.info.get('depth', 0) of a play, in sixteenths of a ply.
Depths == {0, 16}

\* A performance history without entries: -1 marks a missing key.
NoHistory == [e \in EngineNames |-> -1]

NoManagerCall ==
    [made |-> FALSE, recommended |-> "none", played_by |-> "none",
     move |-> NoMove, info_engine |-> "none", updated |-> "none"]

NoManager ==
    [configs |-> {}, engines |-> {}, performance_history |-> NoHistory,
     updates |-> 0, call |-> NoManagerCall]

\* No manager was constructed yet.
ManagerIdle == manager = NoManager

\* get_engine: the started engine of the type, None when the type has no
\* configuration or its engine did not start.
GetEngine(engines, engine_type) ==
    IF engine_type \in engines THEN engine_type ELSE "none"

\* The engine get_best_move plays with: the recommended one, else Stockfish.
EngineToPlay(engines, recommended) ==
    IF GetEngine(engines, recommended) # "none"
    THEN GetEngine(engines, recommended)
    ELSE GetEngine(engines, "stockfish")

\* AdvancedEngineManager.get_best_move with _update_performance: engine_move
\* is what engine.play gives (NoMove: it raised), depth what it reports.
\* _update_performance looks up the recommended type in the configurations
\* and reads its entry of the history, which only a started engine has.
ManagerGetBestMoveInfo(configs, engines, perf, recommended, engine_move, depth) ==
    LET engine == EngineToPlay(engines, recommended)
        none == [move |-> NoMove, info_engine |-> "none",
                 played_by |-> "none", updated |-> "none", perf |-> perf]
    IN  IF engine = "none" \/ engine_move = NoMove THEN none
        ELSE IF recommended \in configs /\ perf[recommended] = -1
        THEN [none EXCEPT !.played_by = engine]
        ELSE [move |-> engine_move, info_engine |-> recommended,
              played_by |-> engine,
              updated |-> IF recommended \in configs THEN recommended
                          ELSE "none",
              perf |-> IF recommended \in configs
                       THEN [perf EXCEPT ![recommended] = (@ + depth) \div 2]
                       ELSE perf]

\* __init__ and _initialize_engines: of the configured engines some start,
\* and each started engine gets its entry of the history.
ManagerInitializeEngines ==
    /\ manager.configs = {}
    /\ \E configs \in (SUBSET EngineNames) \ {{}} :
       \E engines \in SUBSET configs :
          manager' = [NoManager EXCEPT
                         !.configs = configs, !.engines = engines,
                         !.performance_history =
                             [e \in EngineNames |->
                                 IF e \in engines THEN 0 ELSE -1]]
    /\ UNCHANGED managerFrame

\* A call of AdvancedEngineManager.get_best_move.
ManagerCallGetBestMove ==
    /\ manager.configs # {}
    /\ manager.updates < MaxManagerUpdates
    /\ \E recommended \in EngineNames, engine_move \in {NoMove, EngineMove},
          depth \in Depths :
       \E r \in {ManagerGetBestMoveInfo(manager.configs, manager.engines, manager.performance_history, recommended, engine_move, depth)} :
          /\ r.played_by # "none" \/ depth = 0
          /\ manager' = [manager EXCEPT
                            !.performance_history = r.perf,
                            !.updates = IF r.updated # "none" THEN @ + 1 ELSE @,
                            !.call = [made |-> TRUE, recommended |-> recommended,
                                      played_by |-> r.played_by, move |-> r.move,
                                      info_engine |-> r.info_engine,
                                      updated |-> r.updated]]
    /\ UNCHANGED managerFrame

\* The later parts at rest.
ExtIdle ==
    /\ FeatureIdle
    /\ ControllerIdle
    /\ ScoreIdle
    /\ TypeIdle
    /\ TournamentIdle
    /\ TypedIdle
    /\ ManagerIdle

(***************************************************************************)
(* The specifications.                                                     *)
(***************************************************************************)

\* The calls record_mistake is given in the model: the move played, the
\* best move, and their evaluations.
RecordCalls ==
    { <<"e2e4", "d2d4", 10, 130>>, <<"d2d4", "e2e4", 10, 30>> }

DoRecordMistake ==
    /\ Len(mistakes_table) < MaxRecords
    /\ \E h \in Hashes, c \in RecordCalls, insertOk \in BOOLEAN :
          RecordMistake(h, c[1], c[3], c[2], c[4], insertOk)
    /\ UNCHANGED <<classVars, selVars, auxVars, extVars>>

\* An engine answer and a save outcome are drawn only for a call that
\* reaches the engine (a cache miss with the engine started) and, for the
\* save, only when the engine answered; an unused input is held fixed.
InputsUsed(cache, h, result, saveOk) ==
    /\ (~cache[h].cached /\ stockfish) \/ result = EngineFailed
    /\ (~cache[h].cached /\ stockfish /\ result # EngineFailed) \/ saveOk

DoGetBestMove ==
    /\ \E h \in Hashes, result \in EngineOutcomes, saveOk \in BOOLEAN :
          /\ InputsUsed(positions_cache, h, result, saveOk)
          /\ GetBestMove(h, result, saveOk)
    /\ UNCHANGED <<classVars, selVars, auxVars, extVars>>

\* The insert outcome is drawn only for a turn that reaches the insert.
InsertUsed(analysis, g, insertOk) ==
    \/ insertOk
    \/ /\ IsMistake(analysis.best_moves, g.move)
       /\ ParseSan(analysis.best_moves[1].san) # NoMove

DoPlayWhiteMove ==
    /\ \E h \in Hashes, result1 \in EngineOutcomes, saveOk1 \in BOOLEAN :
        /\ InputsUsed(positions_cache, h, result1, saveOk1)
        /\ \E analysis \in {DeepPositionAnalysis(positions_cache, position_analyses, h, result1, saveOk1)} :
           \E result2 \in EngineOutcomes, saveOk2 \in BOOLEAN :
             /\ InputsUsed(analysis.cache, h, result2, saveOk2)
             /\ \E g \in {GetBestMoveWithLearning(analysis.cache, analysis.saved, mistakes_database, h, result2, saveOk2)} :
                \E insertOk \in BOOLEAN :
                  /\ InsertUsed(analysis, g, insertOk)
                  /\ PlayWhiteMove(h, result1, saveOk1, result2, saveOk2, insertOk)
                  /\ Len(mistakes_table') <= MaxRecords
    /\ UNCHANGED <<classVars, selVars, auxVars, extVars>>

DoRestart ==
    /\ Restart
    /\ UNCHANGED <<classVars, selVars, auxVars, extVars>>

\* The parts a specification does not move.
AuxIdle ==
    /\ BookIdle
    /\ BudgetInit
    /\ GameInit
    /\ ExtIdle

Init ==
    /\ LedgerInit
    /\ ClassifyIdle
    /\ SelectIdle
    /\ AuxIdle

Next ==
    \/ DoRecordMistake
    \/ DoGetBestMove
    \/ DoPlayWhiteMove
    \/ DoRestart

\* The learning system in use: decisions, turns of the game loop, records
\* and restarts.
Spec == Init /\ [][Next]_vars

\* The evaluations record_mistake is given in the severity specification:
\* every difference around the three thresholds, on both sides.
SeverityMoveEvals == {-50, 0, 10}

SeverityBestEvals == {-60, 10, 50, 60, 100, 110, 130, 200, 210, 260}

DoRecordSeverity ==
    /\ Len(mistakes_table) < MaxSeverityRecords
    /\ \E h \in Hashes, move_evaluation \in SeverityMoveEvals,
          best_evaluation \in SeverityBestEvals, insertOk \in BOOLEAN :
          RecordMistake(h, "e2e4", move_evaluation, "d2d4", best_evaluation, insertOk)
    /\ UNCHANGED <<classVars, selVars, auxVars, extVars>>

NextSeverity ==
    \/ DoRecordSeverity
    \/ DoRestart

\* record_mistake on evaluation pairs around the severity thresholds.
SpecSeverity == Init /\ [][NextSeverity]_vars

InitClassify ==
    /\ LedgerInit
    /\ ClassifyInit
    /\ SelectIdle
    /\ AuxIdle

NextClassify ==
    \/ PushMove
    \/ LoadFromFen
    \/ AnalyzePosition

\* The classifier on two boards that hold the same position.
SpecClassify == InitClassify /\ [][NextClassify]_vars

InitSelect ==
    /\ LedgerInit
    /\ ClassifyIdle
    /\ SelectInit
    /\ AuxIdle

NextSelect ==
    \/ Call
    \/ EngineWrapperGetMove
    \/ AdvancedHybridEngineGetMove
    \/ Return

\* The move selection of the two engine front ends.
SpecSelect == InitSelect /\ [][NextSelect]_vars

InitBook ==
    /\ LedgerInit
    /\ ClassifyIdle
    /\ SelectIdle
    /\ BookInit
    /\ BudgetInit
    /\ GameInit
    /\ ExtIdle

NextBook ==
    \/ BookGetMove
    \/ BookNextPosition

\* The weighted choice from the book, over every entry list and draw.
SpecBook == InitBook /\ [][NextBook]_vars

NextBudget ==
    \/ AnalyzerAnalyzePosition
    \/ ManagerPlay

\* The analysis of a board and the budget of the engine call.
SpecBudget == Init /\ [][NextBudget]_vars

NextGame ==
    \/ GamePush
    \/ GameAnalysis
    \/ NewGame

\* Games that reach positions by several move orders, on one cache.
SpecGame == Init /\ [][NextGame]_vars

NextFeatures ==
    \/ FeatureSetBoard
    \/ FeatureExtract

\* The feature extraction over the boards of the model.
SpecFeatures == Init /\ [][NextFeatures]_vars

InitController ==
    /\ LedgerInit
    /\ ClassifyIdle
    /\ SelectIdle
    /\ BookIdle
    /\ BudgetInit
    /\ GameInit
    /\ FeatureIdle
    /\ ControllerInit
    /\ ScoreIdle
    /\ TypeIdle
    /\ TournamentIdle
    /\ TypedIdle
    /\ ManagerIdle

NextController ==
    \/ HybridEngineControllerGetBestMove
    \/ AdaptiveExplore
    \/ LearnFromResult

\* The engine choice of the controller and its adaptive front end.
SpecController == InitController /\ [][NextController]_vars

NextConfidence ==
    \/ AdvancedScore
    \/ ControllerScore

\* The confidence scores of the two analyzers over the feature values.
SpecConfidence == Init /\ [][NextConfidence]_vars

NextLoop ==
    \/ DoPlayWhiteMove
    \/ DoRestart

\* The game loop alone: turns of White and restarts, on a ledger nothing
\* else writes.
SpecLoop == Init /\ [][NextLoop]_vars

NextTournament ==
    \/ PlayTournament
    \/ LearningPlayGame
    \/ LearningFinish
    \/ ContinuousPlayGame
    \/ SignalHandler
    \/ ContinuousFinish

\* Tournaments of both systems, one after the other.
SpecTournament == Init /\ [][NextTournament]_vars

DoTypedDeepPositionAnalysis ==
    /\ typed.chosen
    /\ \E result \in EngineOutcomes, saveOk \in BOOLEAN :
          /\ InputsUsed(positions_cache, TypedHash, result, saveOk)
          /\ TypedDeepPositionAnalysis(result, saveOk)

NextTyped ==
    \/ TypedSetBoard
    \/ DoTypedDeepPositionAnalysis
    \/ DoRestart

\* Repeated analyses of one board, with restarts.
SpecTyped == Init /\ [][NextTyped]_vars

NextManager ==
    \/ ManagerInitializeEngines
    \/ ManagerCallGetBestMove

\* An engine manager with any configurations, any of which may fail to
\* start.
SpecManager == Init /\ [][NextManager]_vars

NextTypes ==
    \/ ControllerAnalyzePosition
    \/ ControllerForget

\* The classification of PositionAnalyzer over the boards of the model.
SpecTypes == Init /\ [][NextTypes]_vars

(***************************************************************************)
(* Claims about the mistake ledger.                                        *)
(***************************************************************************)

\* The SANs the durable table holds as move_played for a hash.
FlaggedIn(table, h) ==
    {table[i].move_played : i \in {j \in 1..Len(table) : table[j].position_hash = h}}

\* The entries of a ranked list whose SAN is not in a set, in list order.
Survivors(ranked, flagged) ==
    LET Keeps(e) == e.san \notin flagged
    IN  SelectSeq(ranked, Keeps)

IsPrefix(s, t) ==
    /\ Len(s) <= Len(t)
    /\ \A i \in 1..Len(s) : s[i] = t[i]

\* The ledger as it was when the last decision was taken: a turn of the
\* game loop appends its record after the move is chosen.
TableAtDecision ==
    IF last.op = "play" /\ last.rec = "recorded"
    THEN SubSeq(mistakes_table, 1, Len(mistakes_table) - 1)
    ELSE mistakes_table

IsDecision == last.op \in {"get_best_move", "play"}

\* C1: filtering the ranked list of a position removes every move a prior
\* ledger record of that hash has as move_played and keeps the others in
\* their order, whenever at least one candidate survives: for every cached
\* position of every reachable state, and for the list the last decision
\* filtered.
C1_FilterRemovesFlagged ==
    /\ \A h \in Hashes :
          LET ranked == positions_cache[h].best_moves
              flagged == FlaggedIn(mistakes_table, h)
          IN  Survivors(ranked, flagged) # <<>> =>
                FilterCandidates(mistakes_database[h], ranked) = Survivors(ranked, flagged)
    /\ IsDecision =>
          LET flagged == FlaggedIn(TableAtDecision, last.h)
          IN  Survivors(last.ranked, flagged) # <<>> =>
                /\ last.filtered = Survivors(last.ranked, flagged)
                /\ \A i \in 1..Len(last.filtered) : last.filtered[i].san \notin flagged

\* A decision filtered a three-move list down to two moves, the first and
\* the last of the list.
C1_Witness ==
    /\ last.op = "get_best_move"
    /\ Len(last.ranked) = 3
    /\ last.filtered = <<last.ranked[1], last.ranked[3]>>
    /\ last.ranked[2].san \in FlaggedIn(mistakes_table, last.h)

\* C2: filtering never turns a non-empty candidate list into an empty one;
\* when every candidate is flagged the unfiltered list is what comes back.
C2_NeverEmpty ==
    /\ \A h \in Hashes :
          LET ranked == positions_cache[h].best_moves
              out == FilterCandidates(mistakes_database[h], ranked)
          IN  /\ ranked # <<>> => out # <<>>
              /\ Survivors(ranked, FlaggedIn(mistakes_table, h)) = <<>> => out = ranked
    /\ IsDecision =>
          /\ last.ranked # <<>> => last.filtered # <<>>
          /\ Survivors(last.ranked, FlaggedIn(TableAtDecision, last.h)) = <<>>
                => last.filtered = last.ranked

\* A decision found every candidate of a non-empty list flagged.
C2_Witness ==
    /\ last.op = "get_best_move"
    /\ last.ranked # <<>>
    /\ \A i \in 1..Len(last.ranked) :
          last.ranked[i].san \in FlaggedIn(mistakes_table, last.h)
    /\ last.filtered = last.ranked

\* C3 as stated: a decision never returns a move that the ledger already
\* holds as move_played for the hash of the position.
C3_NeverReturnsFlagged ==
    (IsDecision /\ last.move # NoMove) =>
        SanOf(last.move) \notin FlaggedIn(TableAtDecision, last.h)

\* C3 as amended: a decision does not return a flagged move when its
\* ranked list holds a move that is not flagged and the first such move
\* parses as a legal move.
C3_NoRepeatWhileCandidateSurvives ==
    IsDecision =>
        LET left == Survivors(last.ranked, FlaggedIn(TableAtDecision, last.h))
        IN  (left # <<>> /\ ParseSan(left[1].san) # NoMove) =>
                /\ last.move = ParseSan(left[1].san)
                /\ SanOf(last.move) \notin FlaggedIn(TableAtDecision, last.h)

\* After a restart-free or restarted run flagged the top move of a list,
\* a decision on that position returned the next move instead.
C3_Witness ==
    /\ IsDecision
    /\ Len(last.ranked) >= 2
    /\ last.ranked[1].san \in FlaggedIn(TableAtDecision, last.h)
    /\ last.move = ParseSan(last.ranked[2].san)
    /\ last.move # NoMove

\* C4: the severity class of every record follows from best_eval minus
\* move_eval with strict thresholds: above 2.0 blunder, else above 1.0
\* mistake, else above 0.5 inaccuracy, else minor; in particular 2.0 and
\* 1.2 give mistake, 1.0 inaccuracy and 0.5 minor.
C4_SeverityThresholds ==
    \A i \in 1..Len(mistakes_table) :
        LET row == mistakes_table[i]
            diff == row.best_evaluation - row.move_evaluation
        IN  /\ diff > 200 => row.mistake_type = "blunder"
            /\ (100 < diff /\ diff <= 200) => row.mistake_type = "mistake"
            /\ (50 < diff /\ diff <= 100) => row.mistake_type = "inaccuracy"
            /\ diff <= 50 => row.mistake_type = "minor"
            /\ diff \in {200, 120} => row.mistake_type = "mistake"
            /\ diff = 100 => row.mistake_type = "inaccuracy"
            /\ diff = 50 => row.mistake_type = "minor"
            /\ \E j \in 1..Len(mistakes_database[row.position_hash]) :
                  mistakes_database[row.position_hash][j].mistake_type = row.mistake_type

\* A record with a difference of exactly 2.0 was stored as a mistake.
C4_Witness ==
    \E i \in 1..Len(mistakes_table) :
        /\ mistakes_table[i].best_evaluation - mistakes_table[i].move_evaluation = 200
        /\ mistakes_table[i].mistake_type = "mistake"
        /\ last.op = "record"

\* The chosen move is in the engine's analysis of the position and its
\* evaluation is more than 0.1 below that of the top line.
TrailsTop(h, move) ==
    LET best_moves == positions_cache[h].best_moves
    IN  \E i \in 1..Len(best_moves) :
            /\ best_moves[i].san = SanOf(move)
            /\ best_moves[i].score < best_moves[1].score - 10

\* C5: a turn of the game loop creates a mistake record exactly when the
\* evaluation of the move it chose trails the evaluation of the engine's
\* top suggestion for the position by more than 0.1.
C5_RecordIffTrails ==
    last.op = "play" =>
        ((last.rec = "recorded") <=> TrailsTop(last.h, last.move))

\* C6: the ledger only grows: every step leaves the durable table and the
\* list of every hash in the index as a prefix of what they become.
C6_AppendOnly ==
    [][ /\ IsPrefix(mistakes_table, mistakes_table')
        /\ \A h \in Hashes :
              IsPrefix(mistakes_database[h], mistakes_database'[h]) ]_vars

\* A restart reloaded a ledger that holds two records of one hash.
C6_Witness ==
    /\ last.op = "restart"
    /\ \E h \in Hashes : Len(mistakes_database[h]) = 2

\* C7: the index in memory is the durable table grouped by hash, each list
\* in table order, after loading and after every record call.
C7_IndexEqualsTable ==
    \A h \in Hashes :
        LET OfHash(row) == row.position_hash = h
            rows == SelectSeq(mistakes_table, OfHash)
        IN  /\ Len(mistakes_database[h]) = Len(rows)
            /\ \A i \in 1..Len(rows) :
                  /\ mistakes_database[h][i].move_played = rows[i].move_played
                  /\ mistakes_database[h][i].best_move = rows[i].best_move
                  /\ mistakes_database[h][i].mistake_type = rows[i].mistake_type
                  /\ mistakes_database[h][i].severity = rows[i].severity

\* A record call whose insert failed left a non-empty ledger behind.
C7_Witness ==
    /\ last.op = "record"
    /\ last.rec = "raised"
    /\ mistakes_table # <<>>

(***************************************************************************)
(* Claims about the classifier.                                            *)
(***************************************************************************)

\* The tag the ordered rules of the specification give: StrategicClosed is
\* "closed", StrategicOpen is "strategic", the open variant is "open".
FirstMatchHolds(move_count, f, tag) ==
    LET r1 == move_count <= 8
        r2 == f.piece_count >= 80
        r3 == /\ f.pawn_structure >= 70
              /\ f.center_control <= 30
              /\ f.position_complexity >= 60
        r4 == f.tactical_opportunities >= 70 \/ f.material_balance >= 50
        r5 == f.tactical_opportunities >= 50
        r6 == f.pawn_structure >= 60 /\ f.space_control >= 50
        r7 == f.position_complexity >= 70
        r8 == f.center_control >= 50
    IN  /\ r1 => tag = "opening"
        /\ ~r1 /\ r2 => tag = "endgame"
        /\ ~r1 /\ ~r2 /\ r3 => tag = "closed"
        /\ ~r1 /\ ~r2 /\ ~r3 /\ r4 => tag = "critical"
        /\ ~r1 /\ ~r2 /\ ~r3 /\ ~r4 /\ r5 => tag = "tactical"
        /\ ~r1 /\ ~r2 /\ ~r3 /\ ~r4 /\ ~r5 /\ r6 => tag = "strategic"
        /\ ~r1 /\ ~r2 /\ ~r3 /\ ~r4 /\ ~r5 /\ ~r6 /\ r7 => tag = "complex"
        /\ ~r1 /\ ~r2 /\ ~r3 /\ ~r4 /\ ~r5 /\ ~r6 /\ ~r7 /\ r8 => tag = "open"
        /\ ~r1 /\ ~r2 /\ ~r3 /\ ~r4 /\ ~r5 /\ ~r6 /\ ~r7 /\ ~r8 => tag = "simple"

Analysed == position_type # NoTypes

\* C8: the classifier returns the tag of the first rule that matches, in
\* the order Opening (at most 8 moves on the stack), Endgame, StrategicClosed,
\* Critical, Tactical, StrategicOpen, Complex, open variant, Simple; a
\* position that meets the Endgame and the Critical rule is Endgame.
C8_FirstMatchingRule ==
    Analysed =>
        /\ FirstMatchHolds(played_stack, features, position_type.played)
        /\ FirstMatchHolds(loaded_stack, features, position_type.loaded)
        /\ ( /\ played_stack > 8
             /\ features.piece_count >= 80
             /\ features.material_balance >= 50 )
              => position_type.played = "endgame"

\* A position past the opening that meets the Endgame and the Critical
\* rule was classified as endgame.
C8_Witness ==
    /\ Analysed
    /\ played_stack > 8
    /\ features.piece_count >= 80
    /\ features.tactical_opportunities >= 70
    /\ features.material_balance >= 50
    /\ position_type.played = "endgame"

\* C9: two boards with the same canonical serialization get the same
\* classification tag, however each board object was reached: the board
\* played out move by move and the board built from its FEN.
C9_SameSerializationSameTag ==
    Analysed => position_type.played = position_type.loaded

(***************************************************************************)
(* Claims about the move selection.                                        *)
(***************************************************************************)

\* The endgame database reports a win for the board of the answered call,
\* which has at most six pieces.
TablebaseReportsWin ==
    /\ reply.done
    /\ selector.tablebase
    /\ request.board.piece_count <= 6
    /\ request.tb.wdl.ok
    /\ request.tb.wdl.v > 0

\* C10 as stated: for a position with at most 6 pieces for which the
\* endgame database reports a winning result, the selected source is always
\* the endgame database, whatever its classification and features.
C10_WinningTablebaseSelected ==
    TablebaseReportsWin => reply.outcome.source = "tablebase"

\* C10 as the code has it: for a position with at most 6 pieces, not over
\* by the rules, for which the endgame database reports a winning result
\* and answers the distance probe of the position and of the position
\* after at least one legal move, the selected source is the endgame
\* database, whatever the classification and features.
C10_WinningTablebaseSelectedWhenProbed ==
    ( /\ TablebaseReportsWin
      /\ ~request.board.game_over
      /\ request.tb.dtz_ok
      /\ \E i \in 1..Len(TbLegalMoves) : request.tb.child[i].ok )
        => reply.outcome.source = "tablebase"

\* A six-piece position that classifies as critical and is in the book
\* range, with a winning report, was answered from the endgame database.
C10_Witness ==
    /\ TablebaseReportsWin
    /\ request.board.piece_count = 6
    /\ request.board.move_count = 14
    /\ ClassifyPosition(request.board.move_count, request.board.features) = "critical"
    /\ selector.book
    /\ reply.outcome.source = "tablebase"
    /\ reply.outcome.move = "move2"

\* C11: a move from the endgame database is returned only for a position
\* with at most 6 pieces that the database reports as winning for the side
\* to move; for a drawn or lost position the selector moves on.
C11_TablebaseMoveOnlyWhenWinning ==
    (reply.done /\ reply.outcome.source = "tablebase") =>
        /\ request.board.piece_count <= 6
        /\ request.tb.wdl.ok
        /\ request.tb.wdl.v > 0

\* C12: the move the endgame database gives is the legal move with the
\* smallest distance to zero among the legal moves whose resulting position
\* could be probed.
C12_FastestConversion ==
    (reply.done /\ reply.outcome.source = "tablebase") =>
        \E i \in 1..Len(TbLegalMoves) :
            /\ TbLegalMoves[i] = reply.outcome.move
            /\ request.tb.child[i].ok
            /\ \A j \in 1..Len(TbLegalMoves) :
                  request.tb.child[j].ok =>
                    Abs(request.tb.child[i].v) <= Abs(request.tb.child[j].v)

\* C13: the opening repertoire supplies the move only when fewer than 15
\* moves were played and the random draw of the call is below 0.8.
C13_BookOnlyWhenEligible ==
    (reply.done /\ reply.outcome.source = "book") =>
        /\ request.board.move_count < 15
        /\ request.draw < 80

(***************************************************************************)
(* Claims about the book choice, the budget, the fallback and the cache.   *)
(***************************************************************************)

Factor(applies, tenths) == IF applies THEN tenths ELSE 10

Plus(applies, plies) == IF applies THEN plies ELSE 0

\* C15: the budget given to the engine is 2.0 s and 20 plies, times 1.5 and
\* plus 10 when complexity >= 0.7, times 2.0 and plus 15 when the position
\* is Critical, times 0.7 and plus 5 when it is Endgame, the factors
\* multiplied and the additions summed.
C15_BudgetRules ==
    engine_limit.set =>
        LET a == position_analysis
            complex == a.features.position_complexity >= 70
            critical == a.position_type = "critical"
            endgame == a.position_type = "endgame"
        IN  /\ engine_limit.time * 1000 =
                  200 * Factor(complex, 15) * Factor(critical, 20) * Factor(endgame, 7)
            /\ engine_limit.depth =
                  20 + Plus(complex, 10) + Plus(critical, 15) + Plus(endgame, 5)
            /\ (complex /\ critical) =>
                  (engine_limit.time = 600 /\ engine_limit.depth = 45)

\* A critical position with complexity >= 0.7 was given 6.0 s and 45 plies.
C15_Witness ==
    /\ engine_limit.set
    /\ position_analysis.position_type = "critical"
    /\ position_analysis.features.position_complexity >= 70
    /\ engine_limit.time = 600
    /\ engine_limit.depth = 45

\* C16: the starting position (no move played, 32 pieces, 20 legal moves)
\* is classified as Opening, and the engine called for it gets exactly the
\* base budget of 2.0 s and 20 plies.
C16_StartPositionBaseBudget ==
    ( /\ engine_limit.set
      /\ position_analysis.board.move_count = 0
      /\ position_analysis.board.pieces = 32
      /\ position_analysis.board.legal_moves = 20 ) =>
        /\ position_analysis.position_type = "opening"
        /\ engine_limit.time = 200
        /\ engine_limit.depth = 20

\* The sources in their priority order.
Priority(source) ==
    CASE source = "tablebase" -> 1
      [] source = "book" -> 2
      [] source = "engine" -> 3
      [] OTHER -> 0

\* No source has a move for the board of the call.
EverySourceFailed ==
    /\ ~TablebaseDecides(selector, request.board, request.tb)
    /\ request.book_move = NoMove
    /\ request.engine_move = NoMove

\* The sources were asked in priority order, each at most once, and a move
\* comes from the source asked last.
AskedInOrder ==
    /\ \A i \in 1..Len(queried) : Priority(queried[i]) > 0
    /\ \A i, j \in 1..Len(queried) :
          i < j => Priority(queried[i]) < Priority(queried[j])
    /\ reply.outcome.source # "none" =>
          /\ queried # <<>>
          /\ queried[Len(queried)] = reply.outcome.source
          /\ reply.outcome.move # NoMove

\* C17: a request asks the sources in the order endgame database,
\* opening repertoire, search engine, each at most once, a source without a
\* move handing over to the next, and ends with no move exactly when every
\* source failed.
C17_FallbackInOrder ==
    reply.done =>
        /\ AskedInOrder
        /\ reply.outcome.source = "none" <=> EverySourceFailed

\* The collaborator behind a source is held by the selector.
Available(source) ==
    CASE source = "tablebase" -> selector.tablebase
      [] source = "book" -> selector.book
      [] source = "engine" -> selector.engines # {}
      [] OTHER -> FALSE

\* C18: a collaborator that could not be opened at construction is never
\* asked in a later request, and no step makes it available again.
C18_UnavailableNeverQueried ==
    /\ [](\A i \in 1..Len(queried) : Available(queried[i]))
    /\ [][selector' = selector]_vars

\* A request of a selector without tablebase and book went to the engine
\* alone, on a board both would have been eligible for.
C18_Witness ==
    /\ reply.done
    /\ ~selector.tablebase /\ ~selector.book
    /\ request.board.piece_count <= 6
    /\ request.board.move_count < 15
    /\ queried = <<"engine">>

\* C19: a failing store write does not abort the move decision or the
\* game loop: a turn whose top suggestion can be parsed, which leaves the
\* store write as the only step that can fail, is never ended by an
\* exception.
C19_StoreFailureDoesNotAbort ==
    ( /\ last.op = "play"
      /\ last.loop_moves # <<>>
      /\ ParseSan(last.loop_moves[1].san) # NoMove ) =>
        last.rec # "raised"

\* Two FEN records show the same position: piece placement, side to move,
\* castling rights and en-passant square.
SamePosition(f, g) ==
    /\ f.placement = g.placement
    /\ f.turn = g.turn
    /\ f.castling = g.castling
    /\ f.ep = g.ep

\* C20: two occurrences of a position reached by different move orders have
\* the same hash, and the later one is answered from the cache, not by the
\* engine.
C20_TranspositionSharesCache ==
    /\ \A d, e \in analysis_cache :
          SamePosition(d.fen, e.fen) => d.position_hash = e.position_hash
    /\ (lookup.made /\ lookup.path = "engine") =>
          \A e \in analysis_cache :
              SamePosition(e.fen, Fen(game_board)) =>
                  e.position_hash = GetPositionHash(game_board)

(***************************************************************************)
(* Claims about the cached analyses, the features, the confidence and the  *)
(* decision log.                                                           *)
(***************************************************************************)

\* A step leaves the cached entry of h and its stored row as they are.
EntryKept(h) ==
    /\ positions_cache'[h] = positions_cache[h]
    /\ position_analyses'[h] = position_analyses[h]

\* An entry that appears for h holds the values of an engine answer.
EntryFromAnswer(h) ==
    (~positions_cache[h].cached /\ positions_cache'[h].cached) =>
        \E result \in EngineAnswers :
            positions_cache'[h] = Entry(result[1].cp, BestMovesOf(result))

\* C21 as stated: once a hash has a cached entry, no analysis, decision,
\* record or reload changes or removes the entry, the engine is not asked
\* again for the hash (its stored row is never rewritten), and a failed
\* engine query caches nothing.
C21_CachedEntryPermanent ==
    [][\A h \in Hashes :
          /\ positions_cache[h].cached => EntryKept(h)
          /\ EntryFromAnswer(h)]_vars

\* C21 as the code has it: the same within one process; a reload keeps
\* the entries whose row the store holds and drops the others.
C21_CachedEntryPermanentWhenStored ==
    [][\A h \in Hashes :
          /\ (positions_cache[h].cached /\ last'.op # "restart") =>
                EntryKept(h)
          /\ (positions_cache[h].cached /\ last'.op = "restart") =>
                /\ position_analyses'[h] = position_analyses[h]
                /\ IF position_analyses[h].stored
                   THEN positions_cache'[h] = positions_cache[h]
                   ELSE positions_cache'[h] = NoEntry
          /\ EntryFromAnswer(h)]_vars

\* An entry made with the engine outlived a reload that found no engine,
\* and a decision on its position was answered from it.
C21_Witness ==
    /\ last.op = "get_best_move"
    /\ ~stockfish
    /\ positions_cache[last.h].cached
    /\ last.ranked # <<>>

\* C22: the extraction returns a value for every key of the schema, each
\* value lies in [0,1] (0 to 100 hundredths), and the pawn features of a
\* board without pawns are 0.
C22_FeaturesInUnitInterval ==
    extracted.made =>
        /\ DOMAIN extracted.features = FeatureKeys
        /\ \A k \in FeatureKeys :
              extracted.features[k] >= 0 /\ extracted.features[k] <= 100
        /\ PawnsOf(feature_board.pieces) = {} =>
              /\ extracted.features["pawn_structure"] = 0
              /\ extracted.features["pawn_chain_structure"] = 0

\* C23: neither the confidence nor the decision log influences a decision:
\* the call the controller just answered selects the same engine and
\* returns the same move under every other confidence value and every
\* other log, the position type, the running engines, the performance
\* scores and the engine's answer being the same.
C23_ConfidenceAndLogDoNotDecide ==
    called.op = "get_best_move" =>
        \A confidence \in Confidences :
        \A log \in {<<>>, called.history, decision_history} :
            LET r == ControllerGetBestMove(
                         controller_engines, performance_history, log,
                         [called.position_info EXCEPT !.confidence = confidence],
                         called.engine_move)
            IN  /\ r.selected_engine = called.selected_engine
                /\ r.move = called.move

\* A call at low confidence, after a decision was logged, on a position
\* with two preferred engines running, got the preferred engine's move.
C23_Witness ==
    /\ called.op = "get_best_move"
    /\ called.position_info.confidence = 40
    /\ called.position_info.type = "strategic"
    /\ called.history # <<>>
    /\ called.selected_engine = "lc0"
    /\ called.move = EngineMove

\* C24: every request that returns a move appends exactly one record to
\* the decision log, whichever source gave the move, and the log grows by
\* nothing else: its length is the number of requests that returned a move.
C24_OneRecordPerMove ==
    [][(selector.class = "AdvancedHybridEngine" /\ ~reply.done /\ reply'.done) =>
          learning_data' = learning_data
                           + (IF reply'.outcome.move # NoMove THEN 1 ELSE 0)]_vars

\* The weights C25 states, in hundredths.
StatedWeights ==
    [k \in WeightedKeys |->
        CASE k = "tactical_opportunities" -> 25
          [] k = "pawn_structure" -> 20
          [] k = "piece_count" -> 15
          [] k = "center_control" -> 15
          [] k = "king_safety" -> 15
          [] OTHER -> 10]

\* C25: the confidence is the sum of the features weighted 0.25, 0.20,
\* 0.15, 0.15, 0.15 and 0.10, cut off at 1.0, and lies in [0,1] for
\* features in [0,1].
C25_ConfidenceIsStatedWeightedSum ==
    scored.by # "none" =>
        /\ SumOver(StatedWeights, WeightedKeys) = 100
        /\ scored.confidence =
              Min(10000, SumOver([k \in WeightedKeys |->
                                    scored.features[k] * StatedWeights[k]],
                                 WeightedKeys))
        /\ scored.confidence >= 0 /\ scored.confidence <= 10000

\* C26: PositionAnalyzer.analyze_position classifies every position whose
\* piece_count feature is at least 0.8 (six pieces or fewer) as endgame.
C26_FewPiecesIsEndgame ==
    (classified.made /\ classified.features.piece_count >= 80) =>
        classified.type = "endgame"

\* C27: in the game loop alone the mistake ledger, empty at the start,
\* stays empty (table and index), and a turn whose top-ranked move parses
\* plays that move.
C27_LoopLeavesLedgerEmpty ==
    /\ mistakes_table = <<>>
    /\ \A h \in Hashes : mistakes_database[h] = <<>>
    /\ (last.op = "play" /\ last.ranked # <<>>
           /\ ParseSan(last.ranked[1].san) # NoMove)
          => last.move = ParseSan(last.ranked[1].san)

\* A turn of the loop on a ranked list of several parsing moves, after
\* which the ledger is empty.
C27_Witness ==
    /\ last.op = "play"
    /\ Len(last.loop_moves) >= 2
    /\ last.ranked = last.loop_moves
    /\ ParseSan(last.ranked[1].san) # NoMove
    /\ last.move = ParseSan(last.ranked[1].san)
    /\ mistakes_table = <<>>

\* C28: a tournament result has wins + draws + losses = games_played, and
\* games_played and total_moves are the number and the summed move counts
\* of the games played in the tournament.
C28_EveryGameTalliedOnce ==
    tournament.phase = "done" =>
        /\ tournament.returned.wins + tournament.returned.draws
              + tournament.returned.losses = tournament.returned.games_played
        /\ tournament.returned.games_played = tournament.games
        /\ tournament.returned.total_moves = tournament.moves

\* C29: an analysis answered from the cache reports the position_type
\* that was reported when the position was analysed by the engine and put
\* in the cache.
C29_CacheHitKeepsPositionType ==
    (typed.made /\ typed.hit /\ typed.first # "none") =>
        typed.reported = typed.first

\* C30: when an engine of the manager produced a move, the info returned
\* names that engine and the performance history of that engine is the one
\* updated.
C30_NamedEngineProducedMove ==
    (manager.call.made /\ manager.call.played_by # "none") =>
        /\ manager.call.info_engine = manager.call.played_by
        /\ manager.call.updated = manager.call.played_by

====
